---- MODULE Spec2Model ----
(***************************************************************************)
(* Adaptive rendering pipeline of the orbital-waves background.            *)
(*                                                                         *)
(*   GovSpec     the runtime quality governor of Background3D.tsx          *)
(*   SteadySpec  the same governor, with the length of the current run     *)
(*               of factor 1.0 samples observed                            *)
(*   FallbackSpec  the same governor, with the time since the last         *)
(*               fallback observed                                         *)
(*   TierSpec    the device tier classifier of usePerformanceTier.ts       *)
(*   Spec        the wave pool, the shared refraction buffer and the       *)
(*               per-frame callbacks of OrbitalWaves.tsx                   *)
(*   FairSpec    the same scene while the animation loop keeps running     *)
(*   SlotSpec    the transmission samples of the slots of the pool         *)
(*   LowSpec     the same scene on tier low, with the outcomes of the      *)
(*               pointer requests of successive frames observed            *)
(*   RevealSpec  the progressive reveal of one orbit ring                  *)
(*   EnvSpec     the opacity envelope of one active wave                   *)
(*   PlaceSpec   the placement of the orbits of one layout                 *)
(*   CaptureSpec the renderer state around the shared buffer capture       *)
(*   SelSpec     the orbit selection of triggerWaveAction, one loop        *)
(*               iteration per step; SelFairSpec adds that the call runs   *)
(*               on                                                        *)
(*   GpuSpec     the shared GPU device and the off-thread computation of   *)
(*               the orbit geometry                                        *)
(*   DestroySpec the same device, with the return of destroyGPUDevice      *)
(*               observed                                                  *)
(*   HoldSpec    the governor once every sample reports the same factor    *)
(*   TenSpec     the pool of the ten-orbit scene                           *)
(*   PresetSpec  the pointer and frame callbacks of the scene with layout  *)
(*               presets                                                   *)
(*                                                                         *)
(* Numbers.  Resolution multipliers (dpr) are kept in hundredths           *)
(* (1.5 -> 150), performance factors in percent (0.72 -> 72), governor     *)
(* times in milliseconds.  The governor reads its timestamps only through  *)
(* differences with performance.now(), so the current instant is taken as  *)
(* the origin of time (now = 0): a stored timestamp is the signed distance *)
(* from now, and the passing of time moves every stored timestamp into the *)
(* past.  Timestamps older than every cooldown, and deadlines that have    *)
(* passed, are indistinguishable to the code and saturate.                 *)
(***************************************************************************)
EXTENDS Integers, Sequences, FiniteSets, TLC

VARIABLES
    \* ---- Background3D (governor) ----
    tier,                       \* perf.tier
    visible,                    \* document.visibilityState = 'visible'
    dpr,                        \* dpr state, hundredths
    quality,                    \* quality state and qualityRef.current
    lastQualityChangeRef,
    lastDprChangeRef,
    resumeGraceUntilRef,
    allowQualityRiseAtRef,
    \* ---- usePerformanceTier (classifier) ----
    signals,                    \* what window / navigator report
    detected,                   \* result of detectPerformanceTier, or "none"
    prevDetected,               \* result of the evaluation before, or "none"
    \* ---- OrbitalWaves (wave pool, shared refraction buffer, frame callbacks) ----
    orbitCount,                 \* orbits.length
    waves,                      \* wavesRef.current: slot id -> [active, startTime, orbitIndex]
    activeWavesCountRef,
    lastOrbitIndexRef,
    lastActiveWaveRef,          \* id of the slot the ref points to, or Null
    hasFiredIntroWave,
    triggerQueue,
    capturedTransmissionCacheVersion,   \* as its distance from transmissionCacheVersion
    hasCachedTransmissionFrame,
    contextLost,                \* gl.getContext().isContextLost()
    elapsedTime,                \* state.clock.getElapsedTime(), hundredths of a second
    pc,                         \* position inside the animation frame
    \* ---- OrbitalWaves (reveal of one orbit ring) ----
    lineKind,                   \* "Line" (OrbitalWaves.tsx) or "Line2" (its instanced variant)
    pointCount,                 \* orbit.pointCount
    sinceStart,                 \* now - window.start, eighths of a second
    lastDrawCount,              \* runtime.lastDrawCount
    drawCount,                  \* geometry.drawRange.count, resp. geometry.instanceCount
    hDrawn,                     \* drawCount the last frame was rendered with, None before
    \* ---- ImpulseWave (material of one active wave) ----
    profiled,                   \* the slot has a renderProfile (instanced variant)
    slotIndex,                  \* data.id
    slotQuality,                \* quality the slot's renderProfile was built with
    waveConfig,                 \* config: fadeInEnd, fadeOutStart, opacity, thousandths
    cycle,                      \* cycle of the last frame, thousandths; None before it
    matOpacity,                 \* mat.opacity, hundred-thousandths
    \* ---- OrbitalWaves, instanced variant (orbits initializer) ----
    layoutPreset,
    placeCount,                 \* defaultConfig.orbits.count
    placeIndex,                 \* index of the orbit the initializer builds next
    placed,                     \* the orbit built last, NoOrbit before the first
    \* ---- gpu/gpuDevice.ts, gpu/orbitCompute.ts and the effect that calls them ----
    cachedRoot,                 \* handle of the cached device, or Null
    initPromise,                \* id of the promise of the current initialization, or Null
    knownUnavailable,
    promises,                   \* promise id -> [settled, value]; the device that
                                \* initialization p creates has handle p
    destroyedRoots,             \* handles on which destroy() was called
    gpuConfig,                  \* config: orbitCount, segmentsPerOrbit
    task,                       \* component -> its computeOrbitGeometry call
    cancelled,                  \* component -> the cancelled flag of its effect
    lineSource,                 \* component -> where the positions of its lines are from
    hJoined,                    \* component -> the initialization in flight when its
                                \* call of initGPUDevice arrived, or Null
    hDestroyed,                 \* destroyGPUDevice has returned and no call of
                                \* initGPUDevice has started an initialization since
    hHold,                      \* the factor every sample reports from now on, or None
    \* ---- OrbitalWaves with layout presets ----
    isManualWaveTriggerUnlocked, \* isManualWaveTriggerUnlocked.current
    isLogoVisibleRef,           \* isLogoVisibleRef.current
    \* ---- observation (history) ----
    hTrig,                      \* outcome of the triggerWaveAction call of the last step
    hBumps,                     \* by how much the last step raised transmissionCacheVersion
    hZeroed,                    \* the slots whose material opacity, distortion and
                                \* thickness the last step set to 0
    hReqLog,                    \* outcomes of the pointer requests drained on successive
                                \* frames with no wave completing in between
    op,                         \* what the last step did
    hDprAge,                    \* ms since the last applied resolution change, None after
                                \* mount and after a visibility / focus regain
    hQualityAge,                \* the same for the quality level
    hDprNote,                   \* <<"drop" | "rise", hDprAge before>> when the last handler
                                \* was a sample that applied a resolution change
    hQualityNote,               \* the same for the quality level
    hBefore,                    \* <<dpr, quality>> found by the restore or fallback that ran last
    hArmAge,                    \* ms since the mount, the last fallback or the last
                                \* visibility / focus regain, whichever came last
    hResume,                    \* <<"mount" | "regain", ms since it>> for the mount or the
                                \* visibility / focus regain that came last, Settled
                                \* once it is older than every grace period
    \* ---- OrbitalWaves (renderer state around the shared buffer capture) ----
    toneMapping,                \* gl.toneMapping
    renderTarget,               \* gl.getRenderTarget()
    wavesGroupVisible,          \* wavesGroupRef.current.visible
    hRender,                    \* how the offscreen render of the last step ended
    \* ---- OrbitalWaves (orbit selection of triggerWaveAction, statement by statement) ----
    busyOrbits,                 \* the orbits for which isBusyOrbit is true during the call
    selPc,                      \* position inside the selection
    attempt,                    \* loop variable of the random stage
    scanIndex,                  \* loop variable i of the scan
    selOrbitIndex,              \* selOrbitIndex of the call, -1 while not assigned
    hStage,                     \* the stage that assigned selOrbitIndex
    hPrevious,                  \* previousOrbitIndex of the call
    \* ---- OrbitalWaves (transmission samples of the slots of the pool) ----
    slotProfiles,               \* the pool has render profiles (instanced variant)
    perfTransmissionSamples,    \* perf.transmissionSamples
    perfMaxWaves,               \* perf.maxWaves at mount: wavePool.length
    sampleQuality,              \* the quality prop
    waveSlotSamples,            \* slot id -> transmission samples of the slot
    hOnesAge,                   \* ms since the current run of factor 1.0 samples began
    hFallbackAge                \* ms since the last fallback, None before the first

govVars == <<tier, visible, dpr, quality, lastQualityChangeRef, lastDprChangeRef,
             resumeGraceUntilRef, allowQualityRiseAtRef>>
govHist == <<hDprAge, hQualityAge, hDprNote, hQualityNote, hBefore, hArmAge, hResume>>
tierVars == <<signals, detected, prevDetected>>

waveVars == <<orbitCount, waves, activeWavesCountRef, lastOrbitIndexRef, lastActiveWaveRef,
              hasFiredIntroWave, triggerQueue,
              capturedTransmissionCacheVersion, hasCachedTransmissionFrame, contextLost,
              elapsedTime, pc>>
waveHist == <<hTrig, hBumps, hZeroed, hReqLog>>
revealVars == <<lineKind, pointCount, sinceStart, lastDrawCount, drawCount, hDrawn>>
envVars == <<profiled, slotIndex, slotQuality, waveConfig, cycle, matOpacity>>
placeVars == <<layoutPreset, placeCount, placeIndex, placed>>
gpuVars == <<cachedRoot, initPromise, knownUnavailable, promises, destroyedRoots, gpuConfig,
             task, cancelled, lineSource, hJoined>>
glVars == <<toneMapping, renderTarget, wavesGroupVisible, hRender>>
selVars == <<busyOrbits, selPc, attempt, scanIndex, selOrbitIndex, hStage, hPrevious>>
slotVars == <<slotProfiles, perfTransmissionSamples, perfMaxWaves, sampleQuality,
              waveSlotSamples>>
presetVars == <<isManualWaveTriggerUnlocked, isLogoVisibleRef>>
moreVars == <<glVars, selVars, slotVars, hDestroyed, hHold, presetVars>>
extVars == <<revealVars, envVars, placeVars, gpuVars, moreVars>>

vars == <<govVars, govHist, hOnesAge, hFallbackAge, tierVars, waveVars, waveHist, extVars, op>>

Min(a, b) == IF a < b THEN a ELSE b
Max(a, b) == IF a > b THEN a ELSE b
Abs(a) == IF a < 0 THEN -a ELSE a

Tiers == {"low", "medium", "high"}

-----------------------------------------------------------------------------
(* Background3D.tsx: constants and tier tables                             *)

QUALITY_DROP_COOLDOWN_MS == 900
QUALITY_RISE_COOLDOWN_MS == 3200
DPR_DROP_COOLDOWN_MS == 800
DPR_RISE_COOLDOWN_MS == 1500
DPR_MIN_DELTA_TO_APPLY == 10
STARTUP_QUALITY_RISE_DELAY_MS == 6000
MountGraceMs == 800
ResumeGraceMs == 1200

\* Number.NEGATIVE_INFINITY
NEGATIVE_INFINITY == -1000000

\* granularity of the clock: every handler runs at a multiple of TickMs
TickMs == 100

\* PerformanceMonitor step={0.05}: the factor moves in steps of 5 percent
FactorStep == 5
Factors == {f \in 0..100 : f % FactorStep = 0}

MaxDpr(t) == CASE t = "high" -> 200 [] t = "medium" -> 150 [] OTHER -> 100

tierToMaxQuality(t) == CASE t = "high" -> 2 [] t = "medium" -> 1 [] OTHER -> 0

tierToMinDpr(t) == IF t = "high" THEN 150 ELSE IF t = "medium" THEN 100 ELSE 75

tierToMidQuality(maxQuality) == IF maxQuality = 2 THEN 1 ELSE maxQuality

\* a floor of 0 on every tier
tierToMinQualityZero(t) == 0

tierToMinQuality(t) == IF t = "low" THEN 0 ELSE 1

minDpr == tierToMinDpr(tier)
minQuality == tierToMinQuality(tier)
maxQuality == tierToMaxQuality(tier)
initialQuality == tierToMidQuality(maxQuality)

\* a restore that goes back to the full resolution instead of the moderated one
ModerateDprFull(t) == MaxDpr(t)

\* the moderated start / restore value:
\* Math.min(perf.maxDpr, Math.max(perf.tier === 'high' ? 1.5 : 1, minDpr))
ModerateDpr(t) == Min(MaxDpr(t), Max(IF t = "high" THEN 150 ELSE 100, tierToMinDpr(t)))

\* Math.round(n / d) for d > 0: halves round towards plus infinity
RoundDiv(n, d) == (2 * n + d) \div (2 * d)

\* the target without the rounding to quarters
NextDprUnquantized(t, f) ==
    (100 * tierToMinDpr(t) + (MaxDpr(t) - tierToMinDpr(t)) * f) \div 100

\* Math.round((minDpr + (perf.maxDpr - minDpr) * factor) * 4) / 4, hundredths
NextDpr(t, f) ==
    25 * RoundDiv(4 * (100 * tierToMinDpr(t) + (MaxDpr(t) - tierToMinDpr(t)) * f), 10000)

ClampedDpr(t, f) == Max(tierToMinDpr(t), Min(MaxDpr(t), NextDpr(t, f)))

\* the two resolution cooldowns exchanged
DprCooldownSwapped(delta) == IF delta < 0 THEN DPR_RISE_COOLDOWN_MS ELSE DPR_DROP_COOLDOWN_MS

DprCooldown(delta) == IF delta < 0 THEN DPR_DROP_COOLDOWN_MS ELSE DPR_RISE_COOLDOWN_MS

\* the updater with three times the minimum delta
DprAppliesWideDelta(prev, clamped, now) ==
    /\ Abs(clamped - prev) >= 3 * DPR_MIN_DELTA_TO_APPLY
    /\ ~ (now - lastDprChangeRef < DprCooldown(clamped - prev))

\* the setDpr updater of handlePerformanceChange: TRUE when the change is applied
DprApplies(prev, clamped, now) ==
    /\ Abs(clamped - prev) >= DPR_MIN_DELTA_TO_APPLY
    /\ ~ (now - lastDprChangeRef < DprCooldown(clamped - prev))

\* the top branch returning the mid level
TargetQualityMidAtTop(t, f) ==
    LET mq == tierToMaxQuality(t)
        highQualityThreshold == IF mq = 2 THEN 72 ELSE 80
        midQualityThreshold == IF mq = 2 THEN 50 ELSE 58
    IN  IF f >= highQualityThreshold THEN tierToMidQuality(mq)
        ELSE IF f >= midQualityThreshold THEN tierToMidQuality(mq)
        ELSE tierToMinQuality(t)

TargetQuality(t, f) ==
    LET mq == tierToMaxQuality(t)
        highQualityThreshold == IF mq = 2 THEN 72 ELSE 80
        midQualityThreshold == IF mq = 2 THEN 50 ELSE 58
    IN  IF f >= highQualityThreshold THEN mq
        ELSE IF f >= midQualityThreshold THEN tierToMidQuality(mq)
        ELSE tierToMinQuality(t)

QualityCooldown(target, current) ==
    IF target < current THEN QUALITY_DROP_COOLDOWN_MS ELSE QUALITY_RISE_COOLDOWN_MS

\* the tail without the rise gate
QualityAppliesNoGate(target, current, now) ==
    /\ target # current
    /\ ~ (now - lastQualityChangeRef < QualityCooldown(target, current))

\* the tail of handlePerformanceChange: TRUE when the quality change is applied
QualityApplies(target, current, now) ==
    /\ target # current
    /\ ~ (target > current /\ now < allowQualityRiseAtRef)
    /\ ~ (now - lastQualityChangeRef < QualityCooldown(target, current))

\* the fallback resolution without its floor
FallbackDprUnfloored(t) == (MaxDpr(t) * 7) \div 10

\* Math.max(minDpr, perf.maxDpr * 0.7), hundredths
FallbackDpr(t) == Max(tierToMinDpr(t), (MaxDpr(t) * 7) \div 10)

-----------------------------------------------------------------------------
(* Time.  now is the origin; Tick lets TickMs pass.                        *)

now == 0

\* a timestamp of a past change, TickMs later; stale: the longest cooldown it is
\* compared with
AgePast(ts, stale) == IF ts = NEGATIVE_INFINITY THEN ts ELSE Max(ts - TickMs, -stale)

\* a deadline, TickMs later (0: reached)
AgeDeadline(ts) == Max(ts - TickMs, 0)

\* history clocks: None, or an age saturating above every constant it is compared with
None == -1
AgeHist(a, cap) == IF a = None THEN None ELSE Min(a + TickMs, cap)

-----------------------------------------------------------------------------
(* Governor: initial state (after the mount effect) and handlers            *)

NoNote == <<"none", None>>
Settled == <<"settled", None>>

\* the age of the last mount or regain, TickMs later
AgeResume(r) ==
    IF r = Settled \/ r[2] + TickMs >= Max(MountGraceMs, ResumeGraceMs)
    THEN Settled ELSE <<r[1], r[2] + TickMs>>
NoBefore == <<0, 0>>

GovInit ==
    /\ tier \in Tiers
    /\ visible = TRUE
    /\ dpr = ModerateDpr(tier)
    /\ quality = tierToMidQuality(tierToMaxQuality(tier))
    /\ lastQualityChangeRef = NEGATIVE_INFINITY
    /\ lastDprChangeRef = NEGATIVE_INFINITY
    /\ allowQualityRiseAtRef = now + STARTUP_QUALITY_RISE_DELAY_MS
    /\ resumeGraceUntilRef = now + MountGraceMs
    /\ hDprAge = None /\ hQualityAge = None
    /\ hDprNote = NoNote /\ hQualityNote = NoNote /\ hBefore = NoBefore
    /\ hArmAge = 0 /\ hResume = <<"mount", 0>>
    /\ hOnesAge = None /\ hFallbackAge = None
    /\ op = "mount"

\* TickMs pass and no handler runs
Tick ==
    /\ lastQualityChangeRef' = AgePast(lastQualityChangeRef, QUALITY_RISE_COOLDOWN_MS)
    /\ lastDprChangeRef' = AgePast(lastDprChangeRef, DPR_RISE_COOLDOWN_MS)
    /\ resumeGraceUntilRef' = AgeDeadline(resumeGraceUntilRef)
    /\ allowQualityRiseAtRef' = AgeDeadline(allowQualityRiseAtRef)
    /\ hDprAge' = AgeHist(hDprAge, DPR_RISE_COOLDOWN_MS)
    /\ hQualityAge' = AgeHist(hQualityAge, QUALITY_RISE_COOLDOWN_MS)
    /\ hDprNote' = NoNote /\ hQualityNote' = NoNote /\ hBefore' = NoBefore
    /\ hArmAge' = AgeHist(hArmAge, STARTUP_QUALITY_RISE_DELAY_MS)
    /\ hResume' = AgeResume(hResume)
    /\ op' = "tick"
    /\ UNCHANGED <<tier, visible, dpr, quality>>

\* a sample handler without the grace period test
HandlePerformanceChangeNoGrace(f) ==
    /\ op' = "sample"
    /\ hBefore' = NoBefore
    /\ UNCHANGED <<tier, visible, resumeGraceUntilRef, allowQualityRiseAtRef, hArmAge, hResume>>
    /\ IF ~visible
       THEN /\ UNCHANGED <<dpr, quality, lastQualityChangeRef, lastDprChangeRef,
                           hDprAge, hQualityAge>>
            /\ hDprNote' = NoNote /\ hQualityNote' = NoNote
       ELSE LET clampedDpr == ClampedDpr(tier, f)
                targetQuality == TargetQuality(tier, f)
            IN  /\ IF DprApplies(dpr, clampedDpr, now)
                   THEN /\ lastDprChangeRef' = now
                        /\ dpr' = clampedDpr
                        /\ hDprNote' = <<IF clampedDpr < dpr THEN "drop" ELSE "rise", hDprAge>>
                        /\ hDprAge' = 0
                   ELSE /\ UNCHANGED <<dpr, lastDprChangeRef, hDprAge>>
                        /\ hDprNote' = NoNote
                /\ IF QualityApplies(targetQuality, quality, now)
                   THEN /\ quality' = targetQuality
                        /\ lastQualityChangeRef' = now
                        /\ hQualityNote' =
                               <<IF targetQuality < quality THEN "drop" ELSE "rise", hQualityAge>>
                        /\ hQualityAge' = 0
                   ELSE /\ UNCHANGED <<quality, lastQualityChangeRef, hQualityAge>>
                        /\ hQualityNote' = NoNote

\* handlePerformanceChange({ factor })
HandlePerformanceChange(f) ==
    /\ op' = "sample"
    /\ hBefore' = NoBefore
    /\ UNCHANGED <<tier, visible, resumeGraceUntilRef, allowQualityRiseAtRef, hArmAge, hResume>>
    /\ IF ~visible \/ now < resumeGraceUntilRef
       THEN /\ UNCHANGED <<dpr, quality, lastQualityChangeRef, lastDprChangeRef,
                           hDprAge, hQualityAge>>
            /\ hDprNote' = NoNote /\ hQualityNote' = NoNote
       ELSE LET clampedDpr == ClampedDpr(tier, f)
                targetQuality == TargetQuality(tier, f)
            IN  /\ IF DprApplies(dpr, clampedDpr, now)
                   THEN /\ lastDprChangeRef' = now
                        /\ dpr' = clampedDpr
                        /\ hDprNote' = <<IF clampedDpr < dpr THEN "drop" ELSE "rise", hDprAge>>
                        /\ hDprAge' = 0
                   ELSE /\ UNCHANGED <<dpr, lastDprChangeRef, hDprAge>>
                        /\ hDprNote' = NoNote
                /\ IF QualityApplies(targetQuality, quality, now)
                   THEN /\ quality' = targetQuality
                        /\ lastQualityChangeRef' = now
                        /\ hQualityNote' =
                               <<IF targetQuality < quality THEN "drop" ELSE "rise", hQualityAge>>
                        /\ hQualityAge' = 0
                   ELSE /\ UNCHANGED <<quality, lastQualityChangeRef, hQualityAge>>
                        /\ hQualityNote' = NoNote

\* a fallback that waits for the drop cooldowns like a sample does
HandleFallbackCooled ==
    /\ IF now - lastDprChangeRef < DPR_DROP_COOLDOWN_MS
       THEN UNCHANGED <<dpr, lastDprChangeRef>>
       ELSE /\ dpr' = IF Abs(dpr - FallbackDpr(tier)) < 1 THEN dpr ELSE FallbackDpr(tier)
            /\ lastDprChangeRef' = now
    /\ IF now - lastQualityChangeRef < QUALITY_DROP_COOLDOWN_MS
       THEN UNCHANGED <<quality, lastQualityChangeRef>>
       ELSE /\ quality' = minQuality
            /\ lastQualityChangeRef' = now
    /\ allowQualityRiseAtRef' = now + STARTUP_QUALITY_RISE_DELAY_MS
    /\ hDprAge' = 0 /\ hQualityAge' = 0
    /\ hDprNote' = <<"forced", hDprAge>> /\ hQualityNote' = <<"forced", hQualityAge>>
    /\ hBefore' = <<dpr, quality>>
    /\ hArmAge' = 0
    /\ op' = "fallback"
    /\ UNCHANGED <<tier, visible, resumeGraceUntilRef, hResume>>

\* handleFallback()
HandleFallback ==
    /\ dpr' = IF Abs(dpr - FallbackDpr(tier)) < 1 THEN dpr ELSE FallbackDpr(tier)
    /\ lastDprChangeRef' = now
    /\ quality' = minQuality
    /\ lastQualityChangeRef' = now
    /\ allowQualityRiseAtRef' = now + STARTUP_QUALITY_RISE_DELAY_MS
    /\ hDprAge' = 0 /\ hQualityAge' = 0
    /\ hDprNote' = <<"forced", hDprAge>> /\ hQualityNote' = <<"forced", hQualityAge>>
    /\ hBefore' = <<dpr, quality>>
    /\ hArmAge' = 0
    /\ op' = "fallback"
    /\ UNCHANGED <<tier, visible, resumeGraceUntilRef, hResume>>

\* restoreVisualState(), the listener of 'visibilitychange' and of 'focus';
\* isVisible is document.visibilityState = 'visible' when the listener runs
RestoreVisualState(isVisible) ==
    /\ hDprNote' = NoNote /\ hQualityNote' = NoNote
    /\ IF ~isVisible
       THEN /\ UNCHANGED <<dpr, quality, lastQualityChangeRef, lastDprChangeRef,
                           resumeGraceUntilRef, allowQualityRiseAtRef, hDprAge, hQualityAge,
                           hArmAge, hResume>>
            /\ hBefore' = NoBefore
       ELSE /\ resumeGraceUntilRef' = now + ResumeGraceMs
            /\ lastDprChangeRef' = NEGATIVE_INFINITY
            /\ lastQualityChangeRef' = NEGATIVE_INFINITY
            /\ quality' = tierToMidQuality(maxQuality)
            /\ allowQualityRiseAtRef' = now + STARTUP_QUALITY_RISE_DELAY_MS
            /\ dpr' = ModerateDpr(tier)
            /\ hDprAge' = None /\ hQualityAge' = None
            /\ hArmAge' = 0 /\ hResume' = <<"regain", 0>>
            /\ hBefore' = <<dpr, quality>>

\* the document becomes hidden or visible: 'visibilitychange' is dispatched
VisibilityChange ==
    /\ visible' = ~visible
    /\ RestoreVisualState(~visible)
    /\ op' = IF ~visible THEN "restore" ELSE "hide"
    /\ UNCHANGED tier

\* the window receives 'focus'
WindowFocus ==
    /\ RestoreVisualState(visible)
    /\ op' = IF visible THEN "restore" ELSE "focus"
    /\ UNCHANGED <<tier, visible>>

\* the run of factor 1.0 samples received by a visible document, after a sample
OnesAfterSample(f) ==
    IF f = 100 /\ visible THEN (IF hOnesAge = None THEN 0 ELSE hOnesAge) ELSE None

-----
(* usePerformanceTier.ts: the device tier classifier                        *)

\* largest navigator.hardwareConcurrency drawn
MaxCores == 9

\* navigator.deviceMemory in quarters of a gigabyte (0.25 .. 8), Undefined when absent
Undefined == -1
MemoryHints == {Undefined, 1, 2, 4, 8, 16, 32}

\* cores = 0: navigator.hardwareConcurrency is absent (or reported as 0)
Signals == [hasWindow : BOOLEAN, uaMobile : BOOLEAN, touch : BOOLEAN, finePointer : BOOLEAN,
            hardwareConcurrency : 0..MaxCores, deviceMemory : MemoryHints]

\* every touch device taken for a mobile one, the pointer query left out
detectIsMobileAnyTouch(s) ==
    IF ~s.hasWindow THEN FALSE
    ELSE IF s.uaMobile THEN TRUE
    ELSE IF s.touch THEN TRUE
    ELSE FALSE

detectIsMobile(s) ==
    IF ~s.hasWindow THEN FALSE
    ELSE IF s.uaMobile THEN TRUE
    ELSE IF s.touch /\ ~s.finePointer THEN TRUE
    ELSE FALSE

\* the desktop branch without its final return
detectPerformanceTierNoDefault(s) ==
    IF ~s.hasWindow THEN "medium"
    ELSE LET isMobile == detectIsMobile(s)
             cores == IF s.hardwareConcurrency = 0 THEN 4 ELSE s.hardwareConcurrency
             memory == s.deviceMemory
         IN  IF isMobile
             THEN IF cores <= 4 \/ (memory # Undefined /\ memory <= 16) THEN "low" ELSE "medium"
             ELSE IF cores >= 8 /\ (memory = Undefined \/ memory >= 32) THEN "high"
             ELSE IF cores <= 4 \/ (memory # Undefined /\ memory <= 16) THEN "low"
             ELSE "undefined"

\* a missing core count replaced by 8 instead of 4
detectPerformanceTierAssumeEight(s) ==
    IF ~s.hasWindow THEN "medium"
    ELSE LET isMobile == detectIsMobile(s)
             cores == IF s.hardwareConcurrency = 0 THEN 8 ELSE s.hardwareConcurrency
             memory == s.deviceMemory
         IN  IF isMobile
             THEN IF cores <= 4 \/ (memory # Undefined /\ memory <= 16) THEN "low" ELSE "medium"
             ELSE IF cores >= 8 /\ (memory = Undefined \/ memory >= 32) THEN "high"
             ELSE IF cores <= 4 \/ (memory # Undefined /\ memory <= 16) THEN "low"
             ELSE "medium"

detectPerformanceTier(s) ==
    IF ~s.hasWindow THEN "medium"
    ELSE LET isMobile == detectIsMobile(s)
             cores == IF s.hardwareConcurrency = 0 THEN 4 ELSE s.hardwareConcurrency
             memory == s.deviceMemory
         IN  IF isMobile
             THEN IF cores <= 4 \/ (memory # Undefined /\ memory <= 16) THEN "low" ELSE "medium"
             ELSE IF cores >= 8 /\ (memory = Undefined \/ memory >= 32) THEN "high"
             ELSE IF cores <= 4 \/ (memory # Undefined /\ memory <= 16) THEN "low"
             ELSE "medium"

TierInit ==
    /\ signals \in Signals
    /\ detected = "none"
    /\ prevDetected = "none"

\* one evaluation of detectPerformanceTier() against the current device signals
Detect ==
    /\ prevDetected' = detected
    /\ detected' = detectPerformanceTier(signals)
    /\ op' = "detect"
    /\ UNCHANGED signals

--------------------------------------------------------------------------------------------------
(* OrbitalWaves.tsx: wave pool, shared refraction buffer, frame callbacks    *)
(*                                                                          *)
(* An animation frame runs the useFrame callbacks in subscription order:    *)
(* the ImpulseWave callbacks of the slots (children subscribe first), then  *)
(* the callback of OrbitalWaves, which is split here at the points the      *)
(* properties observe: capture decision, trigger drain, intro trigger.      *)
(* Events are dispatched between frames (pc = "idle").                      *)

\* time between two animation frames, in hundredths of a second
FrameCs == 75
\* orbits.length in the scene of Spec
SceneOrbits == 2

\* hundredths of a second
INTRO_DURATION == 600
\* defaultConfig.wave.speed, hundredths of a cycle per second
WaveSpeed == 37

Null == -1

MaxWaves(t) == CASE t = "high" -> 5 [] t = "medium" -> 3 [] OTHER -> 2

Slots == 0..(MaxWaves(tier) - 1)

SetMin(S) == CHOOSE x \in S : \A y \in S : x <= y

\* a cap that ignores the quality level
MaxActiveWavesOfUnreduced(q) == MaxWaves(tier)

\* maxActiveWaves for a quality level
MaxActiveWavesOf(q) ==
    IF q = 2 THEN MaxWaves(tier)
    ELSE IF q = 1 THEN Max(2, MaxWaves(tier) - 1)
    ELSE Max(1, MaxWaves(tier) - 2)

maxActiveWaves == MaxActiveWavesOf(quality)

\* a wave that lasts two cycles
CycleDoneLate(startTime) == (now - startTime) * WaveSpeed >= 2 * 100 * 100

\* cycle >= 1 in the ImpulseWave callback: (now - startTime) / (1 / waveSpeed) >= 1
CycleDone(startTime) == (now - startTime) * WaveSpeed >= 100 * 100

\* Scene times are kept like the governor's, in hundredths of a second: a start time is
\* the signed distance from now, and a frame moves it FrameCs into the past.  A start
\* time whose cycle is over stops ageing; the elapsed time, which is only compared with
\* INTRO_DURATION, stops once it is above it.
AgeStart(startTime) == IF CycleDone(startTime) THEN startTime ELSE startTime - FrameCs
AgeElapsed(t) == IF t > INTRO_DURATION THEN t ELSE t + FrameCs

\* A slot of the pool that is not active.  Its startTime and orbitIndex are never read:
\* the ImpulseWave callback returns at !data.active, isBusyOrbit tests active first, and
\* triggerWaveAction overwrites both when it activates the slot.  They are not carried.
Inactive == [active |-> FALSE]

\* The cache version is only ever compared with the captured version, for equality, so
\* the current cache version is taken as the origin: the captured version is kept as its
\* signed distance from it, 0 when the buffer was captured for the current version and
\* Behind when it was captured for an older one or never (the initial -1).
transmissionCacheVersion == 0
Behind == -1

\* transmissionCacheVersion.current += 1; hasCachedTransmissionFrame.current = false
BumpCacheVersion ==
    /\ capturedTransmissionCacheVersion' = Max(capturedTransmissionCacheVersion - 1, Behind)
    /\ hasCachedTransmissionFrame' = FALSE

WaveInit ==
    /\ orbitCount = SceneOrbits
    /\ waves = [i \in Slots |-> Inactive]
    /\ activeWavesCountRef = 0
    /\ lastOrbitIndexRef = -1
    /\ lastActiveWaveRef = Null
    /\ hasFiredIntroWave = FALSE
    /\ triggerQueue = FALSE
    /\ capturedTransmissionCacheVersion = Behind
    /\ hasCachedTransmissionFrame = FALSE
    /\ contextLost = FALSE
    /\ elapsedTime = 0
    /\ pc = "idle"
    /\ hTrig = "none" /\ hBumps = 0 /\ hZeroed = {} /\ hReqLog = <<>>

\* the effect with the comparison off by one: the slot at the cap is kept
CapEffectOffByOne(cap) ==
    LET cut == {i \in Slots : i > cap /\ waves[i].active}
    IN  /\ waves' = [i \in Slots |-> IF i \in cut THEN Inactive ELSE waves[i]]
        /\ lastActiveWaveRef' = IF lastActiveWaveRef \in cut THEN Null ELSE lastActiveWaveRef
        /\ activeWavesCountRef' = Cardinality({i \in Slots : waves[i].active /\ i \notin cut})

\* the effect deactivating every active slot, below the cap too
CapEffectClearAll(cap) ==
    LET cut == {i \in Slots : waves[i].active}
    IN  /\ waves' = [i \in Slots |-> IF i \in cut THEN Inactive ELSE waves[i]]
        /\ lastActiveWaveRef' = IF lastActiveWaveRef \in cut THEN Null ELSE lastActiveWaveRef
        /\ activeWavesCountRef' = Cardinality({i \in Slots : waves[i].active /\ i \notin cut})

\* the effect leaving lastActiveWaveRef on a slot it deactivated
CapEffectKeepRef(cap) ==
    LET cut == {i \in Slots : i >= cap /\ waves[i].active}
    IN  /\ waves' = [i \in Slots |-> IF i \in cut THEN Inactive ELSE waves[i]]
        /\ lastActiveWaveRef' = lastActiveWaveRef
        /\ activeWavesCountRef' = Cardinality({i \in Slots : waves[i].active /\ i \notin cut})

\* the effect leaving the counter as it found it
CapEffectStaleCount(cap) ==
    LET cut == {i \in Slots : i >= cap /\ waves[i].active}
    IN  /\ waves' = [i \in Slots |-> IF i \in cut THEN Inactive ELSE waves[i]]
        /\ lastActiveWaveRef' = IF lastActiveWaveRef \in cut THEN Null ELSE lastActiveWaveRef
        /\ activeWavesCountRef' = activeWavesCountRef

\* the effect on [maxActiveWaves]: slots at or beyond the new cap are deactivated and
\* the counter is recomputed
CapEffect(cap) ==
    LET cut == {i \in Slots : i >= cap /\ waves[i].active}
    IN  /\ waves' = [i \in Slots |-> IF i \in cut THEN Inactive ELSE waves[i]]
        /\ lastActiveWaveRef' = IF lastActiveWaveRef \in cut THEN Null ELSE lastActiveWaveRef
        /\ activeWavesCountRef' = Cardinality({i \in Slots : waves[i].active /\ i \notin cut})

\* a render of OrbitalWaves with a new quality prop q, and the effects it schedules
Rerender(q) ==
    IF q = quality
    THEN UNCHANGED <<waves, lastActiveWaveRef, activeWavesCountRef>>
    ELSE IF MaxActiveWavesOf(q) # MaxActiveWavesOf(quality)
         THEN CapEffect(MaxActiveWavesOf(q))
         ELSE UNCHANGED <<waves, lastActiveWaveRef, activeWavesCountRef>>

\* what an event between two frames did: it deactivated a slot, or not
EventLabel == IF \E i \in Slots : waves[i].active /\ ~waves'[i].active
              THEN "quality-cut" ELSE "event"

\* the governor sets another quality level (a sample or a fallback)
QualityChange(q) ==
    /\ pc = "idle"
    /\ q # quality
    /\ quality' = q
    /\ BumpCacheVersion
    /\ hBumps' = 1
    /\ hZeroed' = {}
    /\ Rerender(q)
    /\ op' = EventLabel
    /\ hTrig' = "none"
    /\ UNCHANGED <<visible, orbitCount, lastOrbitIndexRef, hasFiredIntroWave, triggerQueue,
                   contextLost, elapsedTime, pc>>

\* the document is hidden and becomes visible again.  No animation frame runs and no
\* pointer event arrives while it is hidden, so both 'visibilitychange' events are one
\* step: handleVisibilityChange of OrbitalWaves returns on the first and bumps the cache
\* version on the second, then restoreVisualState of Background3D puts the quality back
\* to the mid level.
SceneVisibilityRegain ==
    /\ pc = "idle"
    /\ visible
    /\ LET q == tierToMidQuality(maxQuality)
       IN  /\ quality' = q
           /\ Rerender(q)
           /\ BumpCacheVersion
           /\ hBumps' = IF q # quality THEN 2 ELSE 1
           /\ hZeroed' = {}
    /\ op' = EventLabel
    /\ hTrig' = "none"
    /\ UNCHANGED <<visible, orbitCount, lastOrbitIndexRef, hasFiredIntroWave, triggerQueue,
                   contextLost, elapsedTime, pc>>

\* 'focus': restoreVisualState of Background3D puts the quality back to the mid level
SceneFocus ==
    /\ pc = "idle"
    /\ visible
    /\ LET q == tierToMidQuality(maxQuality)
       IN  /\ quality' = q
           /\ Rerender(q)
           /\ IF q # quality
              THEN BumpCacheVersion /\ hBumps' = 1 /\ hZeroed' = {}
              ELSE /\ UNCHANGED <<capturedTransmissionCacheVersion,
                                  hasCachedTransmissionFrame>>
                   /\ hBumps' = 0
                   /\ hZeroed' = {}
    /\ op' = EventLabel
    /\ hTrig' = "none"
    /\ UNCHANGED <<visible, orbitCount, lastOrbitIndexRef, hasFiredIntroWave, triggerQueue,
                   contextLost, elapsedTime, pc>>

\* handlePointerDown()
PointerDown ==
    /\ pc = "idle"
    /\ triggerQueue' = TRUE
    /\ op' = "event"
    /\ hTrig' = "none" /\ hBumps' = 0 /\ hZeroed' = {}
    /\ UNCHANGED <<visible, quality, orbitCount, waves, activeWavesCountRef, lastOrbitIndexRef,
                   lastActiveWaveRef, hasFiredIntroWave,
                   capturedTransmissionCacheVersion, hasCachedTransmissionFrame,
                   contextLost, elapsedTime, pc>>

\* the WebGL context is lost or restored
ContextChange ==
    /\ pc = "idle"
    /\ contextLost' = ~contextLost
    /\ op' = "event"
    /\ hTrig' = "none" /\ hBumps' = 0 /\ hZeroed' = {}
    /\ UNCHANGED <<visible, quality, orbitCount, waves, activeWavesCountRef, lastOrbitIndexRef,
                   lastActiveWaveRef, hasFiredIntroWave, triggerQueue,
                   capturedTransmissionCacheVersion, hasCachedTransmissionFrame, elapsedTime, pc>>

\* a frame begins: the clock advances and the ImpulseWave callback of every slot runs;
\* a slot whose cycle is over calls handleWaveComplete(id)
FrameWaves ==
    /\ pc = "idle"
    /\ elapsedTime' = AgeElapsed(elapsedTime)
    /\ LET aged == [i \in Slots |-> IF waves[i].active
                                      THEN [waves[i] EXCEPT !.startTime = AgeStart(@)]
                                      ELSE waves[i]]
           done == {i \in Slots : aged[i].active /\ CycleDone(aged[i].startTime)}
       IN  /\ waves' = [i \in Slots |-> IF i \in done THEN Inactive ELSE aged[i]]
           /\ activeWavesCountRef' = Max(0, activeWavesCountRef - Cardinality(done))
           /\ lastActiveWaveRef' = IF lastActiveWaveRef \in done THEN Null ELSE lastActiveWaveRef
           /\ op' = IF done # {} THEN "tick-complete" ELSE "tick"
           /\ hZeroed' = done
    /\ pc' = "capture"
    /\ hTrig' = "none" /\ hBumps' = 0
    /\ UNCHANGED <<visible, quality, orbitCount, lastOrbitIndexRef, hasFiredIntroWave,
                   triggerQueue, capturedTransmissionCacheVersion,
                   hasCachedTransmissionFrame, contextLost>>

\* a capture on every frame that has an active wave
CaptureDueAlways == TRUE

\* the capture is due: !hasCachedTransmissionFrame.current || cacheVersionChanged
CaptureDue ==
    \/ ~hasCachedTransmissionFrame
    \/ capturedTransmissionCacheVersion # transmissionCacheVersion

\* a capture that does not record the version it was made for
FrameCaptureNoRecord ==
    /\ pc = "capture"
    /\ pc' = "drain"
    /\ hTrig' = "none" /\ hBumps' = 0 /\ hZeroed' = {}
    /\ LET hasActiveWaves == activeWavesCountRef > 0
       IN  IF hasActiveWaves
           THEN IF CaptureDue
                THEN IF ~contextLost
                     THEN /\ hasCachedTransmissionFrame' = TRUE
                          /\ UNCHANGED capturedTransmissionCacheVersion
                          /\ op' = "capture"
                     ELSE /\ UNCHANGED <<hasCachedTransmissionFrame,
                                         capturedTransmissionCacheVersion>>
                          /\ op' = "capture-lost"
                ELSE /\ UNCHANGED <<hasCachedTransmissionFrame,
                                    capturedTransmissionCacheVersion>>
                     /\ op' = "capture-valid"
           ELSE /\ hasCachedTransmissionFrame' = FALSE
                /\ UNCHANGED capturedTransmissionCacheVersion
                /\ op' = "capture-idle"
    /\ UNCHANGED <<visible, quality, orbitCount, waves, activeWavesCountRef, lastOrbitIndexRef,
                   lastActiveWaveRef, hasFiredIntroWave, triggerQueue,
                   contextLost, elapsedTime>>

\* the capture attempted without asking whether the context is lost
FrameCaptureIgnoreLost ==
    /\ pc = "capture"
    /\ pc' = "drain"
    /\ hTrig' = "none" /\ hBumps' = 0 /\ hZeroed' = {}
    /\ LET hasActiveWaves == activeWavesCountRef > 0
       IN  IF hasActiveWaves
           THEN IF CaptureDue
                THEN IF TRUE
                     THEN /\ hasCachedTransmissionFrame' = TRUE
                          /\ capturedTransmissionCacheVersion' = transmissionCacheVersion
                          /\ op' = "capture"
                     ELSE /\ UNCHANGED <<hasCachedTransmissionFrame,
                                         capturedTransmissionCacheVersion>>
                          /\ op' = "capture-lost"
                ELSE /\ UNCHANGED <<hasCachedTransmissionFrame,
                                    capturedTransmissionCacheVersion>>
                     /\ op' = "capture-valid"
           ELSE /\ hasCachedTransmissionFrame' = FALSE
                /\ UNCHANGED capturedTransmissionCacheVersion
                /\ op' = "capture-idle"
    /\ UNCHANGED <<visible, quality, orbitCount, waves, activeWavesCountRef, lastOrbitIndexRef,
                   lastActiveWaveRef, hasFiredIntroWave, triggerQueue,
                   contextLost, elapsedTime>>

\* useFrame of OrbitalWaves: the shared buffer capture
FrameCapture ==
    /\ pc = "capture"
    /\ pc' = "drain"
    /\ hTrig' = "none" /\ hBumps' = 0 /\ hZeroed' = {}
    /\ LET hasActiveWaves == activeWavesCountRef > 0
       IN  IF hasActiveWaves
           THEN IF CaptureDue
                THEN IF ~contextLost
                     THEN /\ hasCachedTransmissionFrame' = TRUE
                          /\ capturedTransmissionCacheVersion' = transmissionCacheVersion
                          /\ op' = "capture"
                     ELSE /\ UNCHANGED <<hasCachedTransmissionFrame,
                                         capturedTransmissionCacheVersion>>
                          /\ op' = "capture-lost"
                ELSE /\ UNCHANGED <<hasCachedTransmissionFrame,
                                    capturedTransmissionCacheVersion>>
                     /\ op' = "capture-valid"
           ELSE /\ hasCachedTransmissionFrame' = FALSE
                /\ UNCHANGED capturedTransmissionCacheVersion
                /\ op' = "capture-idle"
    /\ UNCHANGED <<visible, quality, orbitCount, waves, activeWavesCountRef, lastOrbitIndexRef,
                   lastActiveWaveRef, hasFiredIntroWave, triggerQueue,
                   contextLost, elapsedTime>>

\* a test that looks at the first slot only
IsBusyOrbitFirstSlot(o, activationLimit) ==
    0 < activationLimit /\ waves[0].active /\ waves[0].orbitIndex = o

\* isBusyOrbit(orbitIndex) of triggerWaveAction
IsBusyOrbit(o, activationLimit) ==
    \E i \in Slots : i < activationLimit /\ waves[i].active /\ waves[i].orbitIndex = o

\* the orbit triggerWaveAction assigns.  Every random attempt can miss, so the random
\* stage yields any orbit that is neither the previous one nor busy, or none; the scan
\* yields the first such orbit; the last stage draws (previous + 1 + r) % orbitCount
\* with r in 0..orbitCount-2, or any orbit.
NextOrbitChoices(activationLimit) ==
    LET previousOrbitIndex == lastOrbitIndexRef
        ok == {o \in 0..(orbitCount - 1) :
                   o # previousOrbitIndex /\ ~IsBusyOrbit(o, activationLimit)}
        afterScan == IF ok # {} THEN ok ELSE {-1}
    IN  IF afterScan # {-1} THEN afterScan
        ELSE IF orbitCount > 1 /\ previousOrbitIndex >= 0
             THEN {(previousOrbitIndex + 1 + r) % orbitCount : r \in 0..(orbitCount - 2)}
             ELSE 0..(orbitCount - 1)

\* an activation that invalidates the shared buffer whether or not a wave was active
TriggerWaveActionAlwaysBump ==
    LET activationLimit == Min(maxActiveWaves, MaxWaves(tier))
        hadActiveWaves == activeWavesCountRef > 0
        free == {i \in Slots : i < activationLimit /\ ~waves[i].active}
    IN  IF free = {}
        THEN /\ UNCHANGED <<waves, activeWavesCountRef, lastOrbitIndexRef, lastActiveWaveRef,
                            capturedTransmissionCacheVersion, hasCachedTransmissionFrame>>
             /\ hTrig' = "dropped" /\ hBumps' = 0 /\ hZeroed' = {}
        ELSE LET availableWaveIndex == SetMin(free)
             IN  \E nextOrbitIndex \in NextOrbitChoices(activationLimit) :
                    /\ lastOrbitIndexRef' = nextOrbitIndex
                    /\ waves' = [waves EXCEPT ![availableWaveIndex] =
                                     [active |-> TRUE, startTime |-> now,
                                      orbitIndex |-> nextOrbitIndex]]
                    /\ activeWavesCountRef' = activeWavesCountRef + 1
                    /\ lastActiveWaveRef' = availableWaveIndex
                    /\ BumpCacheVersion /\ hBumps' = 1 /\ hZeroed' = {}
                    /\ hTrig' = "activated"

\* triggerWaveAction(state)
TriggerWaveAction ==
    LET activationLimit == Min(maxActiveWaves, MaxWaves(tier))
        hadActiveWaves == activeWavesCountRef > 0
        free == {i \in Slots : i < activationLimit /\ ~waves[i].active}
    IN  IF free = {}
        THEN /\ UNCHANGED <<waves, activeWavesCountRef, lastOrbitIndexRef, lastActiveWaveRef,
                            capturedTransmissionCacheVersion, hasCachedTransmissionFrame>>
             /\ hTrig' = "dropped" /\ hBumps' = 0 /\ hZeroed' = {}
        ELSE LET availableWaveIndex == SetMin(free)
             IN  \E nextOrbitIndex \in NextOrbitChoices(activationLimit) :
                    /\ lastOrbitIndexRef' = nextOrbitIndex
                    /\ waves' = [waves EXCEPT ![availableWaveIndex] =
                                     [active |-> TRUE, startTime |-> now,
                                      orbitIndex |-> nextOrbitIndex]]
                    /\ activeWavesCountRef' = activeWavesCountRef + 1
                    /\ lastActiveWaveRef' = availableWaveIndex
                    /\ IF ~hadActiveWaves
                       THEN BumpCacheVersion /\ hBumps' = 1 /\ hZeroed' = {}
                       ELSE /\ UNCHANGED <<capturedTransmissionCacheVersion,
                                           hasCachedTransmissionFrame>>
                            /\ hBumps' = 0
                            /\ hZeroed' = {}
                    /\ hTrig' = "activated"

\* a drain that keeps a dropped request pending for the next frame
FrameDrainRequeue ==
    /\ pc = "drain"
    /\ pc' = "intro"
    /\ op' = "drain"
    /\ IF triggerQueue
       THEN /\ TriggerWaveAction
            /\ triggerQueue' = (hTrig' = "dropped")
       ELSE /\ UNCHANGED <<triggerQueue, waves, activeWavesCountRef, lastOrbitIndexRef,
                           lastActiveWaveRef, capturedTransmissionCacheVersion,
                           hasCachedTransmissionFrame>>
            /\ hTrig' = "none" /\ hBumps' = 0 /\ hZeroed' = {}
    /\ UNCHANGED <<visible, quality, orbitCount, hasFiredIntroWave, contextLost, elapsedTime>>

\* useFrame of OrbitalWaves: the pending pointer request is drained
FrameDrain ==
    /\ pc = "drain"
    /\ pc' = "intro"
    /\ op' = "drain"
    /\ IF triggerQueue
       THEN /\ triggerQueue' = FALSE
            /\ TriggerWaveAction
       ELSE /\ UNCHANGED <<triggerQueue, waves, activeWavesCountRef, lastOrbitIndexRef,
                           lastActiveWaveRef, capturedTransmissionCacheVersion,
                           hasCachedTransmissionFrame>>
            /\ hTrig' = "none" /\ hBumps' = 0 /\ hZeroed' = {}
    /\ UNCHANGED <<visible, quality, orbitCount, hasFiredIntroWave, contextLost, elapsedTime>>

\* useFrame of OrbitalWaves: the autonomous first wave; the frame ends
FrameIntro ==
    /\ pc = "intro"
    /\ pc' = "idle"
    /\ op' = "intro"
    /\ IF elapsedTime > INTRO_DURATION /\ ~hasFiredIntroWave
       THEN /\ hasFiredIntroWave' = TRUE
            /\ TriggerWaveAction
       ELSE /\ UNCHANGED <<hasFiredIntroWave, waves, activeWavesCountRef, lastOrbitIndexRef,
                           lastActiveWaveRef, capturedTransmissionCacheVersion,
                           hasCachedTransmissionFrame>>
            /\ hTrig' = "none" /\ hBumps' = 0 /\ hZeroed' = {}
    /\ UNCHANGED <<visible, quality, orbitCount, triggerQueue, contextLost, elapsedTime>>

\* the pointer requests of successive frames, no wave completing in between
ReqLogAfterStep ==
    IF op' = "tick-complete" THEN <<>>
    ELSE IF op' = "drain"
         THEN IF hTrig' = "none" THEN <<>>
              ELSE IF Len(hReqLog) < 3 THEN Append(hReqLog, hTrig')
              ELSE Append(Tail(hReqLog), hTrig')
    ELSE hReqLog

-----------------------------------------------------------------------------
(* OrbitalWaves: reveal of the orbit rings                                   *)
(*                                                                          *)
(* One ring is followed.  The frame callback reads the clock only through   *)
(* now - window.start and the ring's draw window, so time is kept as the    *)
(* distance from the start of the ring's window, in eighths of a second.    *)
(* OrbitalWaves.tsx draws a Line through its draw range and eases the       *)
(* progress; the instanced variant draws a Line2 through its instance       *)
(* count, with linear progress, and rebuilds its lines when the quality     *)
(* level changes.                                                           *)

\* 1.5 s
DRAW_DURATION == 12

\* longest gap between two frames, eighths of a second
MaxFrameSteps == 14
\* time of the first frame before the start of the ring's window
RevealLead == 4
\* time after the end of the ring's window the frames are followed for
RevealHorizon == 6

LineKinds == {"Line", "Line2"}

orbitSegments(t) == IF t = "high" THEN 128 ELSE 48

\* qualityFactor in hundredths, retinaFactor and segmentBoostFactor in tenths
getOrbitSegments(baseSegments, q, retina) ==
    LET qualityFactor == IF q = 2 THEN 145 ELSE IF q = 1 THEN 130 ELSE 115
        retinaFactor == IF retina THEN 12 ELSE 10
        targetSegments == (baseSegments * qualityFactor * retinaFactor * 11) \div 10000
    IN  Min(256, Max(baseSegments, targetSegments))

\* -(cos(PI * x) - 1) / 2 at x = k / DRAW_DURATION, k = 0 .. DRAW_DURATION, as the
\* double the code computes, cut to seven decimals
EaseTable == <<0, 170370, 669872, 1464466, 2499999, 3705904, 4999999, 6294095,
               7499999, 8535533, 9330127, 9829629, 10000000>>
EaseScale == 10000000

easeInOutSine(k) == EaseTable[k + 1]

\* the reveal without the branch past the end of the draw window: drawProgress keeps
\* the 0 it was declared with
CurrentCountNoTail(kind, t, n) ==
    IF t < 0 \/ t > DRAW_DURATION THEN 0
    ELSE IF kind = "Line" THEN (easeInOutSine(t) * n) \div EaseScale
    ELSE (t * Max(1, n - 1)) \div DRAW_DURATION

\* currentCount of the frame at now = window.start + t, for a ring of n points:
\* Math.floor(drawProgress * orbit.pointCount), resp.
\* Math.floor(drawProgress * Math.max(1, orbit.pointCount - 1))
CurrentCount(kind, t, n) ==
    IF kind = "Line"
    THEN IF t < 0 THEN 0
         ELSE IF t <= DRAW_DURATION THEN (easeInOutSine(t) * n) \div EaseScale
         ELSE n
    ELSE IF t < 0 THEN 0
         ELSE IF t <= DRAW_DURATION THEN (t * Max(1, n - 1)) \div DRAW_DURATION
         ELSE Max(1, n - 1)

\* what the ring shows when it is fully drawn
FullCount(kind, n) == IF kind = "Line" THEN n ELSE Max(1, n - 1)

RevealIdle ==
    /\ lineKind = "Line" /\ pointCount = 0 /\ sinceStart = 0
    /\ lastDrawCount = -1 /\ drawCount = 0 /\ hDrawn = None

\* a new Line draws its whole geometry (drawRange.count = Infinity); a new Line2 is
\* given instanceCount = 0
RevealInit ==
    /\ lineKind \in LineKinds
    /\ \E t \in Tiers, q \in 0..2, retina \in BOOLEAN :
           pointCount = IF lineKind = "Line" THEN orbitSegments(t) + 1
                        ELSE getOrbitSegments(orbitSegments(t), q, retina) + 1
    /\ sinceStart = -RevealLead
    /\ lastDrawCount = -1
    /\ drawCount = IF lineKind = "Line" THEN pointCount ELSE 0
    /\ hDrawn = None

\* the frame callback on the ring, d eighths of a second after the frame before, and
\* the render that follows it
RevealFrame(d) ==
    /\ sinceStart < DRAW_DURATION + RevealHorizon
    /\ sinceStart' = sinceStart + d
    /\ LET currentCount == CurrentCount(lineKind, sinceStart', pointCount)
       IN  IF lastDrawCount # currentCount
           THEN drawCount' = currentCount /\ lastDrawCount' = currentCount
           ELSE UNCHANGED <<drawCount, lastDrawCount>>
    /\ hDrawn' = drawCount'
    /\ op' = "reveal"
    /\ UNCHANGED <<lineKind, pointCount>>

\* a change of the quality level rebuilds the Line2 objects (instanceCount = 0) and the
\* effect on orbitLines resets the frame state; nothing is rendered in between
RebuildOrbitLines ==
    /\ lineKind = "Line2"
    /\ drawCount' = 0
    /\ lastDrawCount' = -1
    /\ op' = "rebuild"
    /\ UNCHANGED <<lineKind, pointCount, sinceStart, hDrawn>>

-----------------------------------------------------------------------------
(* ImpulseWave: the material of one active wave                              *)
(*                                                                          *)
(* cycle, fadeInEnd, fadeOutStart and waveOpacity are kept in thousandths,  *)
(* the opacityFactor of a render profile in hundredths, and mat.opacity in  *)
(* hundred-thousandths (0.6 -> 60000).                                      *)

\* highest slot index of a pool
MaxSlotIndex == MaxWaves("high") - 1

\* defaultConfig.wave of defaults.ts and of the two other configurations
WaveConfigs ==
    { [fadeInEnd |-> 0,   fadeOutStart |-> 100, opacity |-> 310],
      [fadeInEnd |-> 100, fadeOutStart |-> 200, opacity |-> 600],
      [fadeInEnd |-> 0,   fadeOutStart |-> 195, opacity |-> 200] }

\* the instants the frames of a wave fall on
Cycles == {c \in 0..1000 : c % 50 = 0}

\* renderProfile.opacityFactor of getWaveSlotRenderProfile(i, _, q); OrbitalWaves.tsx
\* has no render profile and multiplies by nothing
OpacityFactor(hasProfile, i, q) ==
    IF ~hasProfile THEN 100
    ELSE IF i <= 0 THEN 100
    ELSE IF i = 1 THEN 92
    ELSE IF i = 2 THEN 84
    ELSE IF q = 0 THEN 68 ELSE IF q = 1 THEN 74 ELSE 78

\* the envelope with the plateau left out: fade-out starts where fade-in ends
IntensityNoPlateau(cfg, c) ==
    IF c < cfg.fadeInEnd THEN <<c, cfg.fadeInEnd>>
    ELSE <<(1000 - cfg.fadeInEnd) - (c - cfg.fadeInEnd), 1000 - cfg.fadeInEnd>>

\* intensity at cycle c < 1, as the fraction <<numerator, denominator>>
Intensity(cfg, c) ==
    IF c < cfg.fadeInEnd THEN <<c, cfg.fadeInEnd>>
    ELSE IF c > cfg.fadeOutStart
         THEN <<(1000 - cfg.fadeOutStart) - (c - cfg.fadeOutStart), 1000 - cfg.fadeOutStart>>
         ELSE <<1, 1>>

\* mat.opacity after the frame at cycle c
Opacity(cfg, factor, c) ==
    IF c >= 1000 THEN 0
    ELSE LET intensity == Intensity(cfg, c)
         IN  (intensity[1] * cfg.opacity * factor) \div intensity[2]

EnvIdle ==
    /\ profiled = FALSE /\ slotIndex = 0 /\ slotQuality = 0
    /\ waveConfig = [fadeInEnd |-> 0, fadeOutStart |-> 100, opacity |-> 310]
    /\ cycle = None /\ matOpacity = 0

\* a wave just activated in some slot: its first frame makes it visible with opacity 0
\* before the envelope is evaluated
EnvInit ==
    /\ profiled \in BOOLEAN
    /\ slotIndex \in 0..MaxSlotIndex
    /\ slotQuality \in 0..2
    /\ waveConfig \in WaveConfigs
    /\ cycle = None
    /\ matOpacity = 0

\* the frame callback of the wave at cycle c
WaveFrame(c) ==
    /\ cycle < 1000
    /\ c > cycle
    /\ cycle' = c
    /\ matOpacity' = Opacity(waveConfig, OpacityFactor(profiled, slotIndex, slotQuality), c)
    /\ op' = IF c >= 1000 THEN "wave-complete" ELSE "envelope"
    /\ UNCHANGED <<profiled, slotIndex, slotQuality, waveConfig>>

-----------------------------------------------------------------------------
(* OrbitalWaves, instanced variant: placement of the orbits                  *)
(*                                                                          *)
(* The placement is a chain of double arithmetic over index and total.      *)
(* What is kept of a double is whether it is a finite number, an infinity   *)
(* or NaN: a quotient of two integers is finite unless the divisor is 0,    *)
(* Math.sin and Math.cos are finite on finite arguments and NaN otherwise,  *)
(* sums and products are finite when all their operands are.  Besides the   *)
(* rotation triple the model of a call records the divisors it evaluated.   *)

LayoutPresets == {"cameraAware", "pairedFan", "waveArc", "orbitalCrown", "phaseLattice",
                  "meridianWeave"}

\* largest defaultConfig.orbits.count followed
MaxTotal == 5

\* a / b for integers a and b
Quotient(a, b) == IF b # 0 THEN "finite" ELSE IF a = 0 THEN "NaN" ELSE "Infinity"

\* Math.sin(x * k), Math.cos(x * k), Math.pow(x, k)
Wave(x) == IF x = "finite" THEN "finite" ELSE "NaN"

\* a sum or product over operands of the kinds in S, none of them 0
Combine(S) == IF "NaN" \in S THEN "NaN" ELSE IF "Infinity" \in S THEN "Infinity" ELSE "finite"

\* getOrbitPlacement with the guards on total <= 1 left out
getOrbitPlacementUnguarded(index, total, preset) ==
    IF preset = "pairedFan"
    THEN IF index = 0
         THEN [rotationX |-> "finite", rotationY |-> "finite", rotationZ |-> "finite",
               divisors |-> {}]
         ELSE LET pairCount == total \div 2
                  pairT == IF pairCount > 0 THEN Quotient((index - 1) \div 2 + 1, pairCount)
                           ELSE "finite"
              IN  [rotationX |-> Combine({"finite", Wave(pairT)}),
                   rotationY |-> "finite",
                   rotationZ |-> Combine({"finite", pairT}),
                   divisors |-> {2} \cup (IF pairCount > 0 THEN {pairCount} ELSE {})]
    ELSE LET normalized == Quotient(index, total - 1)
             centered == Combine({normalized, "finite"})
         IN  [rotationX |-> Combine({"finite", Wave(normalized)}),
              rotationY |-> IF preset \in {"waveArc", "cameraAware"} THEN "finite"
                            ELSE IF preset = "orbitalCrown" THEN normalized
                            ELSE Combine({centered, Wave(normalized)}),
              rotationZ |-> IF preset \in {"phaseLattice", "meridianWeave"} THEN "finite"
                            ELSE IF preset = "orbitalCrown" THEN Wave(normalized)
                            ELSE IF preset = "waveArc"
                                 THEN Combine({centered, Wave(normalized)})
                            ELSE centered,
              divisors |-> {total - 1}]

getOrbitPlacement(index, total, preset) ==
    IF preset = "pairedFan"
    THEN IF total <= 1 \/ index = 0
         THEN [rotationX |-> "finite", rotationY |-> "finite", rotationZ |-> "finite",
               divisors |-> {}]
         ELSE LET pairCount == total \div 2           \* Math.ceil((total - 1) / 2)
                  pairT == IF pairCount > 0 THEN Quotient((index - 1) \div 2 + 1, pairCount)
                           ELSE "finite"
              IN  [rotationX |-> Combine({"finite", Wave(pairT)}),
                   rotationY |-> "finite",
                   rotationZ |-> Combine({"finite", pairT}),
                   divisors |-> {2} \cup (IF pairCount > 0 THEN {pairCount} ELSE {})]
    ELSE IF total <= 1
    THEN [rotationX |-> "finite", rotationY |-> "finite", rotationZ |-> "finite",
          divisors |-> {}]
    ELSE LET normalized == Quotient(index, total - 1)
             centered == Combine({normalized, "finite"})
         IN  \* cameraAware: centerWeight = 1 - Math.abs(centered) in rotationX
             [rotationX |-> IF preset = "cameraAware" THEN Combine({"finite", centered})
                            ELSE Combine({"finite", Wave(normalized)}),
              rotationY |-> IF preset \in {"waveArc", "cameraAware"} THEN "finite"
                            ELSE IF preset = "orbitalCrown" THEN normalized
                            ELSE Combine({centered, Wave(normalized)}),
              rotationZ |-> IF preset \in {"phaseLattice", "meridianWeave"} THEN "finite"
                            ELSE IF preset = "orbitalCrown" THEN Wave(normalized)
                            ELSE IF preset = "waveArc"
                                 THEN Combine({centered, Wave(normalized)})
                            ELSE centered,
              divisors |-> {total - 1}]

\* normalized = orbitCount <= 1 ? 0 : i / (orbitCount - 1)
NormalizedPosition(i, total) ==
    IF total <= 1 THEN [value |-> "finite", divisors |-> {}]
    ELSE [value |-> Quotient(i, total - 1), divisors |-> {total - 1}]

\* element i of the orbits array
BuildOrbitData(i, total, preset) ==
    LET normalized == NormalizedPosition(i, total)
        shaped == preset \in {"phaseLattice", "meridianWeave"}
        scaled == IF shaped THEN Combine({"finite", Wave(normalized.value)}) ELSE "finite"
        placement == getOrbitPlacement(i, total, preset)
    IN  [radiusX |-> scaled,
         radiusZ |-> scaled,
         phaseOffset |-> IF shaped THEN Combine({normalized.value, "finite"}) ELSE "finite",
         rotationX |-> placement.rotationX,
         rotationY |-> placement.rotationY,
         rotationZ |-> placement.rotationZ,
         divisors |-> normalized.divisors \cup placement.divisors]

NoOrbit == [radiusX |-> "none", radiusZ |-> "none", phaseOffset |-> "none",
            rotationX |-> "none", rotationY |-> "none", rotationZ |-> "none",
            divisors |-> {}]

PlaceIdle ==
    /\ layoutPreset = "cameraAware" /\ placeCount = 0 /\ placeIndex = 0 /\ placed = NoOrbit

PlaceInit ==
    /\ layoutPreset \in LayoutPresets
    /\ placeCount \in 1..MaxTotal
    /\ placeIndex = 0
    /\ placed = NoOrbit

\* the next call of the callback of Array.from({ length: orbitCount }).map
BuildOrbit ==
    /\ placeIndex < placeCount
    /\ placed' = BuildOrbitData(placeIndex, placeCount, layoutPreset)
    /\ placeIndex' = placeIndex + 1
    /\ op' = "orbit"
    /\ UNCHANGED <<layoutPreset, placeCount>>

-----------------------------------------------------------------------------
(* gpu/gpuDevice.ts, gpu/orbitCompute.ts and the effect that refines the    *)
(* orbit lines                                                              *)
(*                                                                          *)
(* Each component runs the effect once; the effect calls                    *)
(* computeOrbitGeometry, which calls initGPUDevice.  An async function runs *)
(* to its first await in the step that calls it; what follows an await is   *)
(* a step of its own, taken once the awaited promise has settled.           *)
(* tgpu.init and the GPU path succeed or throw, as the platform decides.    *)
(* A position buffer is kept as its length.                                 *)

\* components calling computeOrbitGeometry
MaxComps == 2
\* a single orbit of 48 segments, and the 10 orbits of 128 segments of tier high
GpuConfigs == { [orbitCount |-> 1, segmentsPerOrbit |-> orbitSegments("low")],
                [orbitCount |-> 10, segmentsPerOrbit |-> orbitSegments("high")] }

Comps == 1..MaxComps

\* initializations whose tgpu.init has not settled
InFlight == {p \in 1..Len(promises) : ~promises[p].settled}

\* devices created and not destroyed
LiveRoots ==
    {p \in 1..Len(promises) : promises[p].settled /\ promises[p].value # Null} \ destroyedRoots

NoResult == [source |-> "none", positions |-> <<>>]
IdleTask == [pc |-> "idle", awaits |-> Null, root |-> Null, threw |-> FALSE,
             result |-> NoResult]

\* length of TypedArray.slice(start, end) on an array of len elements
SliceLen(len, start, end) == Max(0, Min(end, len) - Min(start, len))

computeOnCPU(cfg) ==
    [i \in 1..cfg.orbitCount |-> (cfg.segmentsPerOrbit + 1) * 3]

\* the per-orbit slices of the array read back from the output buffer
computeOnGPU(cfg) ==
    LET pointsPerOrbit == cfg.segmentsPerOrbit + 1
        totalPoints == cfg.orbitCount * pointsPerOrbit
        flatPositions == totalPoints * 3
    IN  [i \in 1..cfg.orbitCount |->
            SliceLen(flatPositions, (i - 1) * pointsPerOrbit * 3,
                     (i - 1) * pointsPerOrbit * 3 + pointsPerOrbit * 3)]

\* initGPUDevice without the check on initPromise
StartsInitNoDedup == cachedRoot = Null /\ ~knownUnavailable

\* initGPUDevice reaches initPromise = (async () => ...)()
StartsInit == cachedRoot = Null /\ ~knownUnavailable /\ initPromise = Null

GpuIdle ==
    /\ cachedRoot = Null /\ initPromise = Null /\ knownUnavailable = FALSE
    /\ promises = <<>> /\ destroyedRoots = {}
    /\ gpuConfig = [orbitCount |-> 0, segmentsPerOrbit |-> 0]
    /\ task = <<>> /\ cancelled = <<>> /\ lineSource = <<>> /\ hJoined = <<>>

\* the module after its import and the components after their first render, the
\* lines holding the positions the orbits initializer computed
GpuInit ==
    /\ cachedRoot = Null /\ initPromise = Null /\ knownUnavailable = FALSE
    /\ promises = <<>> /\ destroyedRoots = {}
    /\ gpuConfig \in GpuConfigs
    /\ task = [k \in Comps |-> IdleTask]
    /\ cancelled = [k \in Comps |-> FALSE]
    /\ lineSource = [k \in Comps |-> "cpu"]
    /\ hJoined = [k \in Comps |-> Null]

\* the effect of component k: computeOrbitGeometry(config) up to its
\* await initGPUDevice()
EffectRun(k) ==
    /\ task[k].pc = "idle"
    /\ LET starts == StartsInit
           fresh == Len(promises) + 1
           awaits == IF cachedRoot # Null \/ knownUnavailable THEN Null
                     ELSE IF starts THEN fresh
                     ELSE initPromise
       IN  /\ promises' = IF starts THEN Append(promises, [settled |-> FALSE, value |-> Null])
                          ELSE promises
           /\ initPromise' = IF starts THEN fresh ELSE initPromise
           /\ task' = [task EXCEPT ![k] = [@ EXCEPT !.pc = "await-init", !.awaits = awaits,
                                                    !.root = cachedRoot]]
    /\ hJoined' = [hJoined EXCEPT ![k] = IF InFlight # {} THEN CHOOSE p \in InFlight : TRUE
                                         ELSE Null]
    /\ op' = "gpu"
    /\ UNCHANGED <<cachedRoot, knownUnavailable, destroyedRoots, gpuConfig, cancelled,
                   lineSource>>

\* tgpu.init of initialization p settles, and the async function behind initPromise
\* runs to its end
InitSettle(p, ok) ==
    /\ p \in InFlight
    /\ promises' = [promises EXCEPT ![p] = [settled |-> TRUE,
                                            value |-> IF ok THEN p ELSE Null]]
    /\ IF ok THEN cachedRoot' = p /\ UNCHANGED knownUnavailable
             ELSE knownUnavailable' = TRUE /\ UNCHANGED cachedRoot
    /\ op' = "gpu"
    /\ UNCHANGED <<initPromise, destroyedRoots, gpuConfig, task, cancelled, lineSource,
                   hJoined>>

\* computeOrbitGeometry after await initGPUDevice(): the GPU path is entered with a
\* device, the CPU fallback is taken without one
AfterInit(k) ==
    /\ task[k].pc = "await-init"
    /\ task[k].awaits # Null => promises[task[k].awaits].settled
    /\ LET root == IF task[k].awaits # Null THEN promises[task[k].awaits].value
                   ELSE task[k].root
       IN  task' = [task EXCEPT ![k] =
                       IF root # Null
                       THEN [@ EXCEPT !.pc = "gpu", !.root = root]
                       ELSE [@ EXCEPT !.pc = "resolved", !.root = root,
                                      !.result = [source |-> "cpu",
                                                  positions |-> computeOnCPU(gpuConfig)]]]
    /\ op' = "gpu"
    /\ UNCHANGED <<cachedRoot, initPromise, knownUnavailable, promises, destroyedRoots,
                   gpuConfig, cancelled, lineSource, hJoined>>

\* the GPU path with no catch around it
GpuSettleUncaught(k, ok) ==
    /\ task[k].pc = "gpu"
    /\ task' = [task EXCEPT ![k] =
                    IF ok
                    THEN [@ EXCEPT !.pc = "resolved",
                                   !.result = [source |-> "gpu",
                                               positions |-> computeOnGPU(gpuConfig)]]
                    ELSE [@ EXCEPT !.pc = "resolved", !.threw = TRUE,
                                   !.result = [source |-> "rejected", positions |-> <<>>]]]
    /\ op' = "gpu"
    /\ UNCHANGED <<cachedRoot, initPromise, knownUnavailable, promises, destroyedRoots,
                   gpuConfig, cancelled, lineSource, hJoined>>

\* computeOnGPU returns, or throws at one of its steps and the catch of
\* computeOrbitGeometry falls through to the CPU fallback
GpuSettle(k, ok) ==
    /\ task[k].pc = "gpu"
    /\ task' = [task EXCEPT ![k] =
                    IF ok
                    THEN [@ EXCEPT !.pc = "resolved",
                                   !.result = [source |-> "gpu",
                                               positions |-> computeOnGPU(gpuConfig)]]
                    ELSE [@ EXCEPT !.pc = "resolved", !.threw = TRUE,
                                   !.result = [source |-> "cpu",
                                               positions |-> computeOnCPU(gpuConfig)]]]
    /\ op' = "gpu"
    /\ UNCHANGED <<cachedRoot, initPromise, knownUnavailable, promises, destroyedRoots,
                   gpuConfig, cancelled, lineSource, hJoined>>

\* the callback that applies the result whether or not the effect was cleaned up
ThenCallbackNoCancel(k) ==
    /\ task[k].pc = "resolved"
    /\ task' = [task EXCEPT ![k].pc = "done"]
    /\ lineSource' = IF task[k].result.source # "gpu" THEN lineSource
                      ELSE [lineSource EXCEPT ![k] = "gpu"]
    /\ op' = "gpu"
    /\ UNCHANGED <<cachedRoot, initPromise, knownUnavailable, promises, destroyedRoots,
                   gpuConfig, cancelled, hJoined>>

\* the callback given to computeOrbitGeometry(config).then
ThenCallback(k) ==
    /\ task[k].pc = "resolved"
    /\ task' = [task EXCEPT ![k].pc = "done"]
    /\ lineSource' = IF cancelled[k] THEN lineSource
                      ELSE IF task[k].result.source # "gpu" THEN lineSource
                      ELSE [lineSource EXCEPT ![k] = "gpu"]
    /\ op' = "gpu"
    /\ UNCHANGED <<cachedRoot, initPromise, knownUnavailable, promises, destroyedRoots,
                   gpuConfig, cancelled, hJoined>>

\* the cleanup of the effect of component k
Teardown(k) ==
    /\ task[k].pc # "idle"
    /\ ~cancelled[k]
    /\ cancelled' = [cancelled EXCEPT ![k] = TRUE]
    /\ op' = "gpu"
    /\ UNCHANGED <<cachedRoot, initPromise, knownUnavailable, promises, destroyedRoots,
                   gpuConfig, task, lineSource, hJoined>>

\* a destroyGPUDevice that resets the whole singleton, the failure flag included
DestroyGPUDeviceResetsAll ==
    /\ destroyedRoots' = IF cachedRoot # Null THEN destroyedRoots \cup {cachedRoot}
                          ELSE destroyedRoots
    /\ cachedRoot' = Null
    /\ initPromise' = Null
    /\ knownUnavailable' = FALSE
    /\ op' = "gpu"
    /\ UNCHANGED <<promises, gpuConfig, task, cancelled, lineSource, hJoined>>

DestroyGPUDevice ==
    /\ IF cachedRoot # Null
       THEN /\ destroyedRoots' = destroyedRoots \cup {cachedRoot}
            /\ cachedRoot' = Null
            /\ initPromise' = Null
       ELSE UNCHANGED <<destroyedRoots, cachedRoot, initPromise>>
    /\ op' = "gpu"
    /\ UNCHANGED <<knownUnavailable, promises, gpuConfig, task, cancelled, lineSource,
                   hJoined>>

-----------------------------------------------------------------------------
(* OrbitalWaves.tsx: the renderer state around the shared buffer capture.   *)
(* The pool is seen through activeWavesCountRef only.                       *)

ToneMappings == {"NoToneMapping", "LinearToneMapping", "ACESFilmicToneMapping"}
RenderTargets == {"null", "other", "sharedFbo"}

\* most waves active at once in the capture scene
MaxCaptureWaves == 2

GlIdle ==
    /\ toneMapping = "NoToneMapping" /\ renderTarget = "null"
    /\ wavesGroupVisible = FALSE /\ hRender = "none"

\* the renderer as the frame callback can find it, no wave active, nothing captured
GlInit ==
    /\ toneMapping \in ToneMappings
    /\ renderTarget \in RenderTargets \ {"sharedFbo"}
    /\ wavesGroupVisible = TRUE
    /\ hRender = "none"
    /\ activeWavesCountRef = 0
    /\ capturedTransmissionCacheVersion = Behind
    /\ hasCachedTransmissionFrame = FALSE
    /\ contextLost = FALSE

\* a capture whose restoring statements follow the render instead of sitting in finally
CaptureSectionNoFinally(throws) ==
    LET hasActiveWaves == activeWavesCountRef > 0
    IN  IF hasActiveWaves
        THEN IF CaptureDue /\ ~contextLost
             THEN IF throws
                  THEN /\ toneMapping' = "NoToneMapping"
                       /\ renderTarget' = "sharedFbo"
                       /\ wavesGroupVisible' = FALSE
                       /\ UNCHANGED <<hasCachedTransmissionFrame,
                                      capturedTransmissionCacheVersion>>
                       /\ hRender' = "threw"
                  ELSE /\ hasCachedTransmissionFrame' = TRUE
                       /\ capturedTransmissionCacheVersion' = transmissionCacheVersion
                       /\ UNCHANGED <<toneMapping, renderTarget>>
                       /\ wavesGroupVisible' = TRUE
                       /\ hRender' = "completed"
             ELSE /\ wavesGroupVisible' = hasActiveWaves
                  /\ UNCHANGED <<toneMapping, renderTarget, hasCachedTransmissionFrame,
                                 capturedTransmissionCacheVersion>>
                  /\ hRender' = "none"
        ELSE /\ wavesGroupVisible' = hasActiveWaves
             /\ hasCachedTransmissionFrame' = FALSE
             /\ UNCHANGED <<toneMapping, renderTarget, capturedTransmissionCacheVersion>>
             /\ hRender' = "none"

\* lines 658-693 of the frame callback; throws: gl.setRenderTarget(sharedFbo) or
\* gl.render throws
CaptureSection(throws) ==
    LET hasActiveWaves == activeWavesCountRef > 0
    IN  IF hasActiveWaves
        THEN IF CaptureDue /\ ~contextLost
             THEN LET oldToneMapping == toneMapping
                      oldRenderTarget == renderTarget
                  IN  \* finally
                      /\ renderTarget' = oldRenderTarget
                      /\ toneMapping' = oldToneMapping
                      /\ wavesGroupVisible' = TRUE
                      /\ IF throws
                         THEN /\ UNCHANGED <<hasCachedTransmissionFrame,
                                             capturedTransmissionCacheVersion>>
                              /\ hRender' = "threw"
                         ELSE /\ hasCachedTransmissionFrame' = TRUE
                              /\ capturedTransmissionCacheVersion' = transmissionCacheVersion
                              /\ hRender' = "completed"
             ELSE /\ wavesGroupVisible' = hasActiveWaves
                  /\ UNCHANGED <<toneMapping, renderTarget, hasCachedTransmissionFrame,
                                 capturedTransmissionCacheVersion>>
                  /\ hRender' = "none"
        ELSE /\ wavesGroupVisible' = hasActiveWaves
             /\ hasCachedTransmissionFrame' = FALSE
             /\ UNCHANGED <<toneMapping, renderTarget, capturedTransmissionCacheVersion>>
             /\ hRender' = "none"

\* one frame of the capture scene
CaptureFrame(throws) ==
    /\ CaptureSection(throws)
    /\ op' = "capture"
    /\ UNCHANGED <<activeWavesCountRef, contextLost>>

\* triggerWaveAction seen from the capture: one more wave is active
CaptureActivate ==
    /\ activeWavesCountRef < MaxCaptureWaves
    /\ activeWavesCountRef' = activeWavesCountRef + 1
    /\ wavesGroupVisible' = TRUE
    /\ IF ~(activeWavesCountRef > 0)
       THEN BumpCacheVersion
       ELSE UNCHANGED <<capturedTransmissionCacheVersion, hasCachedTransmissionFrame>>
    /\ hRender' = "none" /\ op' = "activate"
    /\ UNCHANGED <<toneMapping, renderTarget, contextLost>>

\* handleWaveComplete seen from the capture
CaptureComplete ==
    /\ activeWavesCountRef > 0
    /\ activeWavesCountRef' = Max(0, activeWavesCountRef - 1)
    /\ hRender' = "none" /\ op' = "complete"
    /\ UNCHANGED <<toneMapping, renderTarget, wavesGroupVisible, contextLost,
                   capturedTransmissionCacheVersion, hasCachedTransmissionFrame>>

\* a quality change or a visibility regain invalidates the buffer
CaptureInvalidate ==
    /\ BumpCacheVersion
    /\ hRender' = "none" /\ op' = "invalidate"
    /\ UNCHANGED <<toneMapping, renderTarget, wavesGroupVisible, contextLost,
                   activeWavesCountRef>>

\* the WebGL context is lost or restored
CaptureContextChange ==
    /\ contextLost' = ~contextLost
    /\ hRender' = "none" /\ op' = "context"
    /\ UNCHANGED <<toneMapping, renderTarget, wavesGroupVisible, activeWavesCountRef,
                   capturedTransmissionCacheVersion, hasCachedTransmissionFrame>>

-----------------------------------------------------------------------------
(* OrbitalWaves.tsx: the orbit selection of triggerWaveAction, one loop      *)
(* iteration per step.  The pool is seen through the set of busy orbits.     *)

\* largest orbits.length drawn
MaxSelOrbits == 3

\* Math.max(orbitCount * 2, 8)
randomAttempts == Max(orbitCount * 2, 8)

SelIdle ==
    /\ busyOrbits = {} /\ selPc = "idle" /\ attempt = 0 /\ scanIndex = 0
    /\ selOrbitIndex = -1 /\ hStage = "none" /\ hPrevious = -1

\* the first call of triggerWaveAction: no wave is active, no orbit was assigned
SelInit ==
    /\ orbitCount \in 1..MaxSelOrbits
    /\ lastOrbitIndexRef = -1
    /\ busyOrbits = {} /\ selPc = "random" /\ attempt = 0 /\ scanIndex = 0
    /\ selOrbitIndex = -1 /\ hStage = "none" /\ hPrevious = -1

\* an attempt that is not counted when the candidate is rejected
RandomAttemptUncounted(candidate) ==
    /\ selPc = "random"
    /\ IF candidate = lastOrbitIndexRef \/ candidate \in busyOrbits
       THEN /\ UNCHANGED <<attempt, selOrbitIndex, hStage, selPc>>
       ELSE /\ selOrbitIndex' = candidate
            /\ hStage' = "random"
            /\ selPc' = "assign"
            /\ UNCHANGED attempt
    /\ op' = "select"
    /\ UNCHANGED <<orbitCount, lastOrbitIndexRef, busyOrbits, scanIndex, hPrevious>>

\* one iteration of the random stage; candidate: Math.floor(Math.random() * orbitCount)
RandomAttempt(candidate) ==
    /\ selPc = "random"
    /\ IF candidate = lastOrbitIndexRef \/ candidate \in busyOrbits
       THEN /\ attempt' = attempt + 1
            /\ selPc' = IF attempt + 1 < randomAttempts THEN "random" ELSE "scan"
            /\ UNCHANGED <<selOrbitIndex, hStage>>
       ELSE /\ selOrbitIndex' = candidate
            /\ hStage' = "random"
            /\ selPc' = "assign"
            /\ UNCHANGED attempt
    /\ op' = "select"
    /\ UNCHANGED <<orbitCount, lastOrbitIndexRef, busyOrbits, scanIndex, hPrevious>>

\* one iteration of the scan
ScanStep ==
    /\ selPc = "scan"
    /\ IF scanIndex = lastOrbitIndexRef \/ scanIndex \in busyOrbits
       THEN /\ scanIndex' = scanIndex + 1
            /\ selPc' = IF scanIndex + 1 < orbitCount THEN "scan" ELSE "offset"
            /\ UNCHANGED <<selOrbitIndex, hStage>>
       ELSE /\ selOrbitIndex' = scanIndex
            /\ hStage' = "scan"
            /\ selPc' = "assign"
            /\ UNCHANGED scanIndex
    /\ op' = "select"
    /\ UNCHANGED <<orbitCount, lastOrbitIndexRef, busyOrbits, attempt, hPrevious>>

\* the last stage drawing its offset from 0..orbitCount-1
OffsetStageFullRange ==
    /\ selPc = "offset"
    /\ \E r \in 0..(orbitCount - 1) :
           selOrbitIndex' = IF orbitCount > 1 /\ lastOrbitIndexRef >= 0
                             THEN (lastOrbitIndexRef + 1 + r) % orbitCount
                             ELSE r
    /\ hStage' = "offset"
    /\ selPc' = "assign"
    /\ op' = "select"
    /\ UNCHANGED <<orbitCount, lastOrbitIndexRef, busyOrbits, attempt, scanIndex, hPrevious>>

\* the last stage: (previous + 1 + floor(random * (orbitCount - 1))) % orbitCount, or
\* floor(random * orbitCount)
OffsetStage ==
    /\ selPc = "offset"
    /\ IF orbitCount > 1 /\ lastOrbitIndexRef >= 0
       THEN \E r \in 0..(orbitCount - 2) :
                selOrbitIndex' = (lastOrbitIndexRef + 1 + r) % orbitCount
       ELSE \E r \in 0..(orbitCount - 1) : selOrbitIndex' = r
    /\ hStage' = "offset"
    /\ selPc' = "assign"
    /\ op' = "select"
    /\ UNCHANGED <<orbitCount, lastOrbitIndexRef, busyOrbits, attempt, scanIndex, hPrevious>>

\* lastOrbitIndexRef.current = selOrbitIndex and the activation of the free slot
AssignOrbit ==
    /\ selPc = "assign"
    /\ hPrevious' = lastOrbitIndexRef
    /\ lastOrbitIndexRef' = selOrbitIndex
    /\ selPc' = "done"
    /\ op' = "activated"
    /\ UNCHANGED <<orbitCount, busyOrbits, attempt, scanIndex, selOrbitIndex, hStage>>

\* the next call that finds a free slot; busy: the orbits of the waves active by then
NextCall(busy) ==
    /\ selPc = "done"
    /\ busyOrbits' = busy
    /\ selPc' = "random" /\ attempt' = 0 /\ scanIndex' = 0
    /\ selOrbitIndex' = -1 /\ hStage' = "none"
    /\ op' = "call"
    /\ UNCHANGED <<orbitCount, lastOrbitIndexRef, hPrevious>>

-----------------------------------------------------------------------------
(* OrbitalWaves: transmission samples of the slots of the pool              *)
(*                                                                          *)
(* The pool is created at mount with perf.maxWaves slots.  A memo gives     *)
(* every slot its sample count from the base count of the current quality   *)
(* level: OrbitalWaves.tsx through getWaveSlotSamples, the instanced         *)
(* variant through getWaveSlotRenderProfile.  Ratios are in hundredths.     *)

\* largest perf.transmissionSamples followed
MaxTransmissionSamples == 6

SECONDARY_WAVE_SAMPLES_RATIO == 55
TERTIARY_WAVE_SAMPLES_RATIO == 34

\* perf.maxWaves of the configurations
PoolLengths == 2..5

\* Math.round(baseSamples * ratio) and Math.floor(baseSamples * ratio)
RoundRatio(baseSamples, ratio) == (baseSamples * ratio + 50) \div 100
FloorRatio(baseSamples, ratio) == (baseSamples * ratio) \div 100

\* waveRenderConfig.transmissionSamples
transmissionSamples(q) ==
    IF q = 2 THEN perfTransmissionSamples
    ELSE IF q = 1 THEN Max(2, perfTransmissionSamples - 2)
    ELSE 1

getWaveSlotSamples(index, baseSamples) ==
    IF index <= 0 THEN baseSamples
    ELSE IF index = 1 THEN Max(1, RoundRatio(baseSamples, SECONDARY_WAVE_SAMPLES_RATIO))
    ELSE Max(1, RoundRatio(baseSamples, TERTIARY_WAVE_SAMPLES_RATIO))

\* samples of getWaveSlotRenderProfile(index, baseSamples, q)
getWaveSlotRenderProfile(index, baseSamples, q) ==
    IF index <= 0 THEN baseSamples
    ELSE IF index = 1
         THEN IF q = 2 THEN Max(2, FloorRatio(baseSamples, 55))
              ELSE Max(1, FloorRatio(baseSamples, 50))
    ELSE IF index = 2 THEN Max(1, FloorRatio(baseSamples, 35))
    ELSE 1

\* the memo waveSlotTransmissionSamples, resp. the samples of waveSlotRenderProfiles
SlotSamplesMemo(q) ==
    [index \in 0..(perfMaxWaves - 1) |->
        IF slotProfiles THEN getWaveSlotRenderProfile(index, transmissionSamples(q), q)
        ELSE getWaveSlotSamples(index, transmissionSamples(q))]

SlotIdle ==
    /\ slotProfiles = FALSE /\ perfTransmissionSamples = 0 /\ perfMaxWaves = 0
    /\ sampleQuality = 0 /\ waveSlotSamples = <<>>

\* the first render: the pool is created and the memo is computed
SlotInit ==
    /\ slotProfiles \in BOOLEAN
    /\ perfTransmissionSamples \in 1..MaxTransmissionSamples
    /\ perfMaxWaves \in PoolLengths
    /\ sampleQuality \in 0..2
    /\ waveSlotSamples = SlotSamplesMemo(sampleQuality)

\* the quality prop changes: the memo is computed again
SlotQualityChange(q) ==
    /\ q # sampleQuality
    /\ sampleQuality' = q
    /\ waveSlotSamples' = SlotSamplesMemo(q)
    /\ op' = "quality"
    /\ UNCHANGED <<slotProfiles, perfTransmissionSamples, perfMaxWaves>>

-----
(* Specifications                                                           *)

GovIdle == /\ tier = "medium" /\ visible = TRUE /\ dpr = 100 /\ quality = 1
           /\ lastQualityChangeRef = NEGATIVE_INFINITY /\ lastDprChangeRef = NEGATIVE_INFINITY
           /\ resumeGraceUntilRef = 0 /\ allowQualityRiseAtRef = 0
           /\ hDprAge = None /\ hQualityAge = None
           /\ hDprNote = NoNote /\ hQualityNote = NoNote /\ hBefore = NoBefore
           /\ hArmAge = None /\ hResume = Settled /\ hOnesAge = None /\ hFallbackAge = None

TierIdle == signals = [hasWindow |-> FALSE, uaMobile |-> FALSE, touch |-> FALSE,
                       finePointer |-> FALSE, hardwareConcurrency |-> 0,
                       deviceMemory |-> Undefined]
            /\ detected = "none" /\ prevDetected = "none"

PresetIdle == isManualWaveTriggerUnlocked = FALSE /\ isLogoVisibleRef = FALSE

MoreIdle == GlIdle /\ SelIdle /\ SlotIdle /\ hDestroyed = FALSE /\ hHold = None /\ PresetIdle

ExtIdle == RevealIdle /\ EnvIdle /\ PlaceIdle /\ GpuIdle /\ MoreIdle

\* what a governor step leaves alone
GovRest == UNCHANGED <<tierVars, waveVars, waveHist, extVars>>

\* the governor under any interleaving of samples, fallbacks, visibility changes and
\* focus events
GovNext ==
    \/ Tick /\ GovRest /\ UNCHANGED <<hOnesAge, hFallbackAge>>
    \/ (\E f \in Factors : HandlePerformanceChange(f))
       /\ GovRest /\ UNCHANGED <<hOnesAge, hFallbackAge>>
    \/ HandleFallback /\ GovRest /\ UNCHANGED <<hOnesAge, hFallbackAge>>
    \/ VisibilityChange /\ GovRest /\ UNCHANGED <<hOnesAge, hFallbackAge>>
    \/ WindowFocus /\ GovRest /\ UNCHANGED <<hOnesAge, hFallbackAge>>

WaveIdle ==
    /\ orbitCount = 0 /\ waves = <<>> /\ activeWavesCountRef = 0 /\ lastOrbitIndexRef = -1
    /\ lastActiveWaveRef = Null /\ hasFiredIntroWave = FALSE /\ triggerQueue = FALSE
    /\ capturedTransmissionCacheVersion = Behind
    /\ hasCachedTransmissionFrame = FALSE /\ contextLost = FALSE /\ elapsedTime = 0 /\ pc = "idle"
    /\ hTrig = "none" /\ hBumps = 0 /\ hZeroed = {} /\ hReqLog = <<>>

GovSpecInit == GovInit /\ TierIdle /\ WaveIdle /\ ExtIdle

GovSpec == GovSpecInit /\ [][GovNext]_vars

\* one factor for each pair (ClampedDpr, TargetQuality) a sample can produce on a tier
SteadyFactors == {0, 50, 100}

\* the same governor, observing in addition how long factor 1.0 has been sampled
SteadyNext ==
    \/ Tick /\ hOnesAge' = AgeHist(hOnesAge, STARTUP_QUALITY_RISE_DELAY_MS + TickMs)
       /\ GovRest /\ UNCHANGED hFallbackAge
    \/ (\E f \in SteadyFactors : HandlePerformanceChange(f) /\ hOnesAge' = OnesAfterSample(f))
       /\ GovRest /\ UNCHANGED hFallbackAge
    \/ HandleFallback /\ hOnesAge' = None /\ GovRest /\ UNCHANGED hFallbackAge
    \/ VisibilityChange /\ hOnesAge' = None /\ GovRest /\ UNCHANGED hFallbackAge
    \/ WindowFocus /\ hOnesAge' = None /\ GovRest /\ UNCHANGED hFallbackAge

SteadySpec == GovSpecInit /\ [][SteadyNext]_vars

\* the same governor, observing in addition how long ago the last fallback was
FallbackNext ==
    \/ Tick /\ hFallbackAge' = AgeHist(hFallbackAge, STARTUP_QUALITY_RISE_DELAY_MS)
       /\ GovRest /\ UNCHANGED hOnesAge
    \/ (\E f \in SteadyFactors : HandlePerformanceChange(f))
       /\ GovRest /\ UNCHANGED <<hOnesAge, hFallbackAge>>
    \/ HandleFallback /\ hFallbackAge' = 0 /\ GovRest /\ UNCHANGED hOnesAge
    \/ VisibilityChange /\ GovRest /\ UNCHANGED <<hOnesAge, hFallbackAge>>
    \/ WindowFocus /\ GovRest /\ UNCHANGED <<hOnesAge, hFallbackAge>>

FallbackSpec == GovSpecInit /\ [][FallbackNext]_vars

HoldRest ==
    UNCHANGED <<tierVars, waveVars, waveHist, revealVars, envVars, placeVars, gpuVars,
                glVars, selVars, slotVars, hDestroyed, presetVars, hOnesAge,
                hFallbackAge>>

\* performance.now() advancing
HoldTick == Tick /\ UNCHANGED hHold /\ HoldRest

\* the PerformanceMonitor reporting the factor it keeps reporting, to a visible document
HoldSample ==
    /\ hHold # None /\ visible
    /\ HandlePerformanceChange(hHold)
    /\ UNCHANGED hHold /\ HoldRest

\* the governor under any interleaving of events at first; from some sample of a
\* visible document on, every sample reports the same factor and neither a fallback
\* nor a visibility or focus event occurs
HoldNext ==
    \/ HoldTick
    \/ (\E f \in SteadyFactors, hold \in BOOLEAN :
           /\ hHold = None /\ (hold => visible)
           /\ HandlePerformanceChange(f)
           /\ hHold' = IF hold THEN f ELSE None) /\ HoldRest
    \/ HoldSample
    \/ hHold = None /\ HandleFallback /\ UNCHANGED hHold /\ HoldRest
    \/ hHold = None /\ VisibilityChange /\ UNCHANGED hHold /\ HoldRest
    \/ hHold = None /\ WindowFocus /\ UNCHANGED hHold /\ HoldRest

\* time passes, and the monitor keeps sampling
HoldSpec == GovSpecInit /\ [][HoldNext]_vars /\ WF_vars(HoldTick) /\ WF_vars(HoldSample)

TierSpecInit == TierInit /\ GovIdle /\ WaveIdle /\ ExtIdle /\ op = "mount"

TierNext ==
    Detect /\ UNCHANGED <<govVars, govHist, hOnesAge, hFallbackAge, waveVars, waveHist, extVars>>

TierSpec == TierSpecInit /\ [][TierNext]_vars

\* the scene: the governor is seen through the quality level it hands to OrbitalWaves
SceneInit ==
    /\ tier \in Tiers
    /\ visible = TRUE
    /\ quality = tierToMidQuality(tierToMaxQuality(tier))
    /\ dpr = ModerateDpr(tier)
    /\ lastQualityChangeRef = NEGATIVE_INFINITY /\ lastDprChangeRef = NEGATIVE_INFINITY
    /\ resumeGraceUntilRef = 0 /\ allowQualityRiseAtRef = 0
    /\ hDprAge = None /\ hQualityAge = None
    /\ hDprNote = NoNote /\ hQualityNote = NoNote /\ hBefore = NoBefore
    /\ hArmAge = None /\ hResume = Settled /\ hOnesAge = None /\ hFallbackAge = None
    /\ WaveInit
    /\ op = "mount"
    /\ TierIdle
    /\ ExtIdle

\* what a scene step leaves alone
SceneRest ==
    UNCHANGED <<tier, dpr, lastQualityChangeRef, lastDprChangeRef, resumeGraceUntilRef,
                allowQualityRiseAtRef, govHist, hOnesAge, hFallbackAge, tierVars, extVars>>

Next ==
    \/ FrameWaves /\ SceneRest /\ UNCHANGED hReqLog
    \/ FrameCapture /\ SceneRest /\ UNCHANGED hReqLog
    \/ FrameDrain /\ SceneRest /\ UNCHANGED hReqLog
    \/ FrameIntro /\ SceneRest /\ UNCHANGED hReqLog
    \/ PointerDown /\ SceneRest /\ UNCHANGED hReqLog
    \/ ContextChange /\ SceneRest /\ UNCHANGED hReqLog
    \/ SceneVisibilityRegain /\ SceneRest /\ UNCHANGED hReqLog
    \/ SceneFocus /\ SceneRest /\ UNCHANGED hReqLog
    \/ (\E q \in tierToMinQuality(tier)..tierToMaxQuality(tier) : QualityChange(q))
       /\ SceneRest /\ UNCHANGED hReqLog

Spec == SceneInit /\ [][Next]_vars

\* the steps of an animation frame
Frame ==
    \/ FrameWaves /\ SceneRest /\ UNCHANGED hReqLog
    \/ FrameCapture /\ SceneRest /\ UNCHANGED hReqLog
    \/ FrameDrain /\ SceneRest /\ UNCHANGED hReqLog
    \/ FrameIntro /\ SceneRest /\ UNCHANGED hReqLog

\* the scene while the animation loop keeps running
FairSpec == Spec /\ WF_vars(Frame)

CoreIdle == GovIdle /\ TierIdle /\ WaveIdle
coreVars == <<govVars, govHist, hOnesAge, hFallbackAge, tierVars, waveVars, waveHist>>

RevealSpecInit ==
    RevealInit /\ CoreIdle /\ EnvIdle /\ PlaceIdle /\ GpuIdle /\ MoreIdle /\ op = "mount"

\* the reveal of one ring under any spacing of the frames
RevealNext ==
    \/ (\E d \in 1..MaxFrameSteps : RevealFrame(d))
       /\ UNCHANGED <<coreVars, envVars, placeVars, gpuVars, moreVars>>
    \/ RebuildOrbitLines /\ UNCHANGED <<coreVars, envVars, placeVars, gpuVars, moreVars>>

RevealSpec == RevealSpecInit /\ [][RevealNext]_vars

EnvSpecInit ==
    EnvInit /\ CoreIdle /\ RevealIdle /\ PlaceIdle /\ GpuIdle /\ MoreIdle /\ op = "mount"

\* one wave from its activation to its completion, under any spacing of the frames
EnvNext ==
    (\E c \in Cycles : WaveFrame(c))
    /\ UNCHANGED <<coreVars, revealVars, placeVars, gpuVars, moreVars>>

EnvSpec == EnvSpecInit /\ [][EnvNext]_vars

PlaceSpecInit ==
    PlaceInit /\ CoreIdle /\ RevealIdle /\ EnvIdle /\ GpuIdle /\ MoreIdle /\ op = "mount"

\* the orbits initializer, one orbit after the other
PlaceNext == BuildOrbit /\ UNCHANGED <<coreVars, revealVars, envVars, gpuVars, moreVars>>

PlaceSpec == PlaceSpecInit /\ [][PlaceNext]_vars

GpuSpecInit ==
    GpuInit /\ CoreIdle /\ RevealIdle /\ EnvIdle /\ PlaceIdle /\ MoreIdle /\ op = "mount"

GpuRest == UNCHANGED <<coreVars, revealVars, envVars, placeVars, moreVars>>

\* the device singleton and the geometry computations of the components under any
\* interleaving of their steps, of teardowns and of destroyGPUDevice
GpuNext ==
    \/ (\E k \in Comps : EffectRun(k)) /\ GpuRest
    \/ (\E p \in 1..Len(promises), ok \in BOOLEAN : InitSettle(p, ok)) /\ GpuRest
    \/ (\E k \in Comps : AfterInit(k)) /\ GpuRest
    \/ (\E k \in Comps, ok \in BOOLEAN : GpuSettle(k, ok)) /\ GpuRest
    \/ (\E k \in Comps : ThenCallback(k)) /\ GpuRest
    \/ (\E k \in Comps : Teardown(k)) /\ GpuRest
    \/ DestroyGPUDevice /\ GpuRest

GpuSpec == GpuSpecInit /\ [][GpuNext]_vars

GpuObsRest ==
    UNCHANGED <<coreVars, revealVars, envVars, placeVars, glVars, selVars, slotVars,
                hHold, presetVars>>

\* the same steps, observing whether destroyGPUDevice has returned since the last
\* initialization was started
DestroyNext ==
    \/ (\E k \in Comps : EffectRun(k)) /\ hDestroyed' = (hDestroyed /\ ~StartsInit)
       /\ GpuObsRest
    \/ (\E p \in 1..Len(promises), ok \in BOOLEAN : InitSettle(p, ok))
       /\ UNCHANGED hDestroyed /\ GpuObsRest
    \/ (\E k \in Comps : AfterInit(k)) /\ UNCHANGED hDestroyed /\ GpuObsRest
    \/ (\E k \in Comps, ok \in BOOLEAN : GpuSettle(k, ok)) /\ UNCHANGED hDestroyed
       /\ GpuObsRest
    \/ (\E k \in Comps : ThenCallback(k)) /\ UNCHANGED hDestroyed /\ GpuObsRest
    \/ (\E k \in Comps : Teardown(k)) /\ UNCHANGED hDestroyed /\ GpuObsRest
    \/ DestroyGPUDevice /\ hDestroyed' = TRUE /\ GpuObsRest

DestroySpec == GpuSpecInit /\ [][DestroyNext]_vars

CaptureSpecInit ==
    /\ GlInit /\ WaveIdle /\ GovIdle /\ TierIdle
    /\ RevealIdle /\ EnvIdle /\ PlaceIdle /\ GpuIdle /\ SelIdle /\ SlotIdle
    /\ hDestroyed = FALSE /\ hHold = None /\ PresetIdle /\ op = "mount"

\* what a step of the capture scene leaves alone
CaptureRest ==
    UNCHANGED <<govVars, govHist, hOnesAge, hFallbackAge, tierVars, orbitCount, waves,
                lastOrbitIndexRef, lastActiveWaveRef, hasFiredIntroWave, triggerQueue,
                elapsedTime, pc, waveHist, revealVars, envVars, placeVars, gpuVars,
                selVars, slotVars, hDestroyed, hHold, presetVars>>

\* the frames of the capture scene among activations, completions, invalidations and
\* context changes; the offscreen render of a frame completes or throws
CaptureNext ==
    \/ (\E throws \in BOOLEAN : CaptureFrame(throws)) /\ CaptureRest
    \/ CaptureActivate /\ CaptureRest
    \/ CaptureComplete /\ CaptureRest
    \/ CaptureInvalidate /\ CaptureRest
    \/ CaptureContextChange /\ CaptureRest

CaptureSpec == CaptureSpecInit /\ [][CaptureNext]_vars

SelSpecInit ==
    /\ SelInit
    /\ waves = <<>> /\ activeWavesCountRef = 0 /\ lastActiveWaveRef = Null
    /\ hasFiredIntroWave = FALSE /\ triggerQueue = FALSE
    /\ capturedTransmissionCacheVersion = Behind /\ hasCachedTransmissionFrame = FALSE
    /\ contextLost = FALSE /\ elapsedTime = 0 /\ pc = "idle"
    /\ hTrig = "none" /\ hBumps = 0 /\ hZeroed = {} /\ hReqLog = <<>>
    /\ GovIdle /\ TierIdle /\ RevealIdle /\ EnvIdle /\ PlaceIdle /\ GpuIdle /\ GlIdle
    /\ SlotIdle /\ hDestroyed = FALSE /\ hHold = None /\ PresetIdle
    /\ op = "mount"

\* what a step of the selection leaves alone
SelRest ==
    UNCHANGED <<govVars, govHist, hOnesAge, hFallbackAge, tierVars, waves,
                activeWavesCountRef, lastActiveWaveRef, hasFiredIntroWave, triggerQueue,
                capturedTransmissionCacheVersion, hasCachedTransmissionFrame, contextLost,
                elapsedTime, pc, waveHist, revealVars, envVars, placeVars, gpuVars, glVars,
                slotVars, hDestroyed, hHold, presetVars>>

\* successive calls of triggerWaveAction, each running its selection to the end
SelNext ==
    \/ (\E candidate \in 0..(orbitCount - 1) : RandomAttempt(candidate)) /\ SelRest
    \/ ScanStep /\ SelRest
    \/ OffsetStage /\ SelRest
    \/ AssignOrbit /\ SelRest
    \/ (\E busy \in SUBSET (0..(orbitCount - 1)) : NextCall(busy)) /\ SelRest

SelSpec == SelSpecInit /\ [][SelNext]_vars

\* the call keeps running: JavaScript runs triggerWaveAction to completion
SelFairSpec == SelSpec /\ WF_vars(SelNext)

LowInit == SceneInit /\ tier = "low"

\* the scene on tier low, observing in addition the pointer requests of successive
\* frames; tier low has one quality level, so the quality never changes
LowNext ==
    \/ FrameWaves /\ SceneRest /\ hReqLog' = ReqLogAfterStep
    \/ FrameCapture /\ SceneRest /\ hReqLog' = ReqLogAfterStep
    \/ FrameDrain /\ SceneRest /\ hReqLog' = ReqLogAfterStep
    \/ FrameIntro /\ SceneRest /\ hReqLog' = ReqLogAfterStep
    \/ PointerDown /\ SceneRest /\ hReqLog' = ReqLogAfterStep
    \/ ContextChange /\ SceneRest /\ hReqLog' = ReqLogAfterStep
    \/ SceneVisibilityRegain /\ SceneRest /\ hReqLog' = ReqLogAfterStep
    \/ SceneFocus /\ SceneRest /\ hReqLog' = ReqLogAfterStep

LowSpec == LowInit /\ [][LowNext]_vars

-----------------------------------------------------------------------------
(* Properties of the governor                                               *)

\* C1: in every reachable state of the governor the resolution multiplier lies in
\* [minDpr(tier), maxDpr(tier)] and the quality level in [0, maxQuality(tier)].
C1_GovernorWithinBounds ==
    /\ tierToMinDpr(tier) <= dpr /\ dpr <= MaxDpr(tier)
    /\ 0 <= quality /\ quality <= tierToMaxQuality(tier)

\* a fallback has just forced the resolution of a high tier that was at full resolution
C1_Witness == op = "fallback" /\ tier = "high" /\ dpr = 150 /\ hDprAge = 0 /\ visible

\* C4: a sample applies a resolution change only when the previous applied resolution
\* change (by a sample or a fallback, none forgotten since by a visibility or focus
\* regain) is at least 800 ms old for a drop and 1500 ms for a rise; it applies a quality
\* change only when the previous one is at least 900 ms (drop) or 3200 ms (rise) old.
C4_ChangesRespectCooldown ==
    /\ hDprNote[1] = "drop" /\ hDprNote[2] # None => hDprNote[2] >= 800
    /\ hDprNote[1] = "rise" /\ hDprNote[2] # None => hDprNote[2] >= 1500
    /\ hQualityNote[1] = "drop" /\ hQualityNote[2] # None => hQualityNote[2] >= 900
    /\ hQualityNote[1] = "rise" /\ hQualityNote[2] # None => hQualityNote[2] >= 3200

\* a sample has just raised the resolution and the quality, each after an earlier change
C4_Witness ==
    /\ op = "sample"
    /\ hDprNote[1] = "rise" /\ hDprNote[2] # None
    /\ hQualityNote[1] = "rise" /\ hQualityNote[2] # None

\* C8 as stated: once factor 1.0 has been sampled for longer than the quality rise
\* cooldown (3200 ms), a sample leaves the resolution at maxDpr and the quality at
\* maxQuality.
C8_SteadyAfterRiseCooldown ==
    op = "sample" /\ hOnesAge # None /\ hOnesAge > QUALITY_RISE_COOLDOWN_MS
        => dpr = MaxDpr(tier) /\ quality = tierToMaxQuality(tier)

\* C8 amended: once factor 1.0 has been sampled by a visible document for longer than
\* the startup / resume rise delay (6000 ms) with no fallback, visibility or focus event
\* in between, every sample leaves the resolution at maxDpr and the quality at
\* maxQuality, so neither changes over any number of further identical samples.
C8_SteadyAfterRiseDelay ==
    op = "sample" /\ hOnesAge # None /\ hOnesAge > 6000
        => dpr = MaxDpr(tier) /\ quality = tierToMaxQuality(tier)

\* a high tier pinned at full resolution and quality 2 by such a run of samples
C8_Witness ==
    /\ op = "sample" /\ hOnesAge # None /\ hOnesAge > 6000
    /\ tier = "high" /\ dpr = 200 /\ quality = 2

\* C9: right after a visibility change to visible or a focus of a visible document, the
\* resolution is min(maxDpr, max(1.5 on tier high else 1, minDpr)), the quality is the
\* tier's mid level and both last-change timestamps are minus infinity.
C9_RestoreBaseline ==
    op = "restore" =>
        /\ dpr = Min(MaxDpr(tier), Max(IF tier = "high" THEN 150 ELSE 100, tierToMinDpr(tier)))
        /\ quality = (IF tier = "high" THEN 1 ELSE IF tier = "medium" THEN 1 ELSE 0)
        /\ lastDprChangeRef = NEGATIVE_INFINITY
        /\ lastQualityChangeRef = NEGATIVE_INFINITY

\* a restore that found a high tier at full resolution and quality 2
C9_Witness == op = "restore" /\ tier = "high" /\ hBefore = <<200, 2>> /\ dpr = 150

-----------------------------------------------------------------------------
(* Properties of the classifier                                             *)

C11_ClassifierFollowsRule ==
    (detected # "none" /\ signals.hasWindow) =>
        LET mobile == signals.uaMobile \/ (signals.touch /\ ~signals.finePointer)
            cores  == IF signals.hardwareConcurrency = 0 THEN 4
                      ELSE signals.hardwareConcurrency
            known  == signals.deviceMemory # Undefined
            weak   == cores <= 4 \/ (known /\ signals.deviceMemory <= 4 * 4)
            strong == cores >= 8 /\ (~known \/ signals.deviceMemory >= 8 * 4)
        IN  /\ mobile => detected # "high"
            /\ mobile => (detected = "low" <=> weak)
            /\ (mobile /\ ~weak) => detected = "medium"
            /\ ~mobile => (detected = "high" <=> strong)
            /\ (~mobile /\ ~strong) => (detected = "low" <=> weak)
            /\ (~mobile /\ ~strong /\ ~weak) => detected = "medium"

\* a touch laptop with a mouse, 8 cores and 8 GB, classified as a desktop: high
C11_Witness ==
    /\ detected = "high"
    /\ signals.hasWindow /\ ~signals.uaMobile /\ signals.touch /\ signals.finePointer
    /\ signals.hardwareConcurrency = 8 /\ signals.deviceMemory = 32

\* C12 as stated: with neither a core count nor a memory hint reported the classifier
\* returns medium.
C12_MissingSignalsMedium ==
    (detected # "none" /\ signals.hardwareConcurrency = 0
                       /\ signals.deviceMemory = Undefined) =>
        detected = "medium"

\* C12 as amended: with neither a core count nor a memory hint reported the classifier
\* still returns a tier; it assumes 4 cores, which makes a device with a window low, and
\* it returns medium only when there is no window at all.
C12_MissingSignalsAssumeFourCores ==
    (detected # "none" /\ signals.hardwareConcurrency = 0
                       /\ signals.deviceMemory = Undefined) =>
        /\ detected \in Tiers
        /\ detected = (IF signals.hasWindow THEN "low" ELSE "medium")

\* a desktop browser that reports neither cores nor memory, classified low
C12_Witness ==
    /\ detected = "low"
    /\ signals.hasWindow /\ ~signals.uaMobile /\ ~signals.touch
    /\ signals.hardwareConcurrency = 0 /\ signals.deviceMemory = Undefined

-----------------------------------------------------------------------------
(* Properties of the wave pool and of the shared refraction buffer          *)

ActiveSlots == {i \in Slots : waves[i].active}

\* every slot triggerWaveAction may activate is active
PoolFull ==
    \A i \in Slots :
        i < Min(MaxWaves(tier), IF quality = 2 THEN MaxWaves(tier)
                                ELSE IF quality = 1 THEN Max(2, MaxWaves(tier) - 1)
                                ELSE Max(1, MaxWaves(tier) - 2))
            => waves[i].active

C3_CaptureOncePerVersion ==
    [][ op' = "capture"
        => /\ capturedTransmissionCacheVersion # transmissionCacheVersion
           /\ capturedTransmissionCacheVersion' = transmissionCacheVersion ]_vars

\* after a quality change, a frame with an active wave found the buffer already captured
\* for the cache version in force and did not capture again
C3_Witness ==
    /\ op = "capture-valid" /\ activeWavesCountRef > 0
    /\ tier = "high" /\ quality = 2
    /\ capturedTransmissionCacheVersion = transmissionCacheVersion
    /\ hasCachedTransmissionFrame

\* C5: when a frame ends with a wave that was active before it began and the context is
\* not lost, capturedVersion equals cacheVersion.
C5_BufferCurrentForOlderWaves ==
    /\ pc = "idle" /\ op = "intro" /\ ~contextLost
    /\ \E i \in Slots : waves[i].active /\ waves[i].startTime < now
    => capturedTransmissionCacheVersion = transmissionCacheVersion

\* such a frame end after a quality change
C5_Witness ==
    /\ pc = "idle" /\ op = "intro" /\ ~contextLost
    /\ \E i \in Slots : waves[i].active /\ waves[i].startTime < now
    /\ tier = "high" /\ quality = 2
    /\ capturedTransmissionCacheVersion = transmissionCacheVersion

\* C6: when the pointer request is drained, or the intro trigger fires, while every slot
\* within the activation limit is active, no slot, the active count, the last assigned
\* orbit, the cache version and the glow reference change, and the request is consumed
\* (the pending flag is cleared, the intro is marked as fired).
C6_FullPoolDropsTrigger ==
    [][ /\ PoolFull
        /\ \/ pc = "drain" /\ triggerQueue
           \/ pc = "intro" /\ elapsedTime > INTRO_DURATION /\ ~hasFiredIntroWave
        => /\ waves' = waves
           /\ activeWavesCountRef' = activeWavesCountRef
           /\ lastOrbitIndexRef' = lastOrbitIndexRef
           /\ capturedTransmissionCacheVersion' = capturedTransmissionCacheVersion
           /\ hasCachedTransmissionFrame' = hasCachedTransmissionFrame
           /\ lastActiveWaveRef' = lastActiveWaveRef
           /\ (pc = "drain" => ~triggerQueue')
           /\ (pc = "intro" => hasFiredIntroWave') ]_vars

\* a pointer request was dropped by a medium tier whose two usable slots were active
C6_Witness ==
    /\ op = "drain" /\ hTrig = "dropped" /\ ~triggerQueue
    /\ tier = "medium" /\ PoolFull /\ Cardinality(ActiveSlots) = 2

\* C7 as stated: on tier low, after three pointer requests drained on three successive
\* frames with no wave completing in between, exactly 2 slots are active and the third
\* request was dropped.
C7_ThreeRequestsFillTwoSlots ==
    tier = "low" /\ Len(hReqLog) = 3
        => Cardinality(ActiveSlots) = 2 /\ hReqLog[3] = "dropped"

\* C7 amended: on tier low the quality level is 0 and the cap is max(1, 2 - 2) = 1, so
\* after three such requests exactly 1 slot is active and the second and the third
\* request were dropped.
C7_ThreeRequestsFillOneSlot ==
    tier = "low" /\ Len(hReqLog) = 3
        => /\ Cardinality(ActiveSlots) = 1
           /\ hReqLog[2] = "dropped" /\ hReqLog[3] = "dropped"

\* three requests in a row on an idle pool: the first was served, the others dropped
C7_Witness ==
    /\ tier = "low" /\ op = "drain"
    /\ hReqLog = <<"activated", "dropped", "dropped">>
    /\ Cardinality(ActiveSlots) = 1

\* C16: a frame with an active wave and a capture due, on a lost context, issues no
\* offscreen render and leaves the captured version and the has-cached flag as they
\* were; a capture that is due stays due until a capture is made; and a frame with an
\* active wave and a capture due, on a context that is not lost, makes the capture.
C16_LostContextDefersCapture ==
    [][ /\ (pc = "capture" /\ activeWavesCountRef > 0 /\ CaptureDue /\ contextLost) =>
              /\ op' # "capture"
              /\ UNCHANGED <<capturedTransmissionCacheVersion, hasCachedTransmissionFrame>>
        /\ (CaptureDue /\ op' # "capture") => CaptureDue'
        /\ (pc = "capture" /\ activeWavesCountRef > 0 /\ CaptureDue /\ ~contextLost) =>
              /\ op' = "capture"
              /\ capturedTransmissionCacheVersion' = transmissionCacheVersion
              /\ hasCachedTransmissionFrame' ]_vars

\* a capture skipped on a lost context while a wave is active and nothing is cached
C16_Witness ==
    /\ op = "capture-lost" /\ contextLost /\ activeWavesCountRef > 0
    /\ ~hasCachedTransmissionFrame /\ pc = "drain"

-----------------------------------------------------------------------------
(* Properties of the reveal of the orbit rings                              *)

-----------------------------------------------------------------------------
(* Properties of the wave material                                          *)

\* C14 as stated: with fadeInEnd = 0.1, fadeOutStart = 0.2 and waveOpacity = 0.6 the
\* opacity of a wave is 0 at cycle 0, 0.6 at cycle 0.1, 0.6 at cycle 0.15 and 0 at
\* cycle 1, in every slot.
C14_EnvelopeProbes ==
    (waveConfig = [fadeInEnd |-> 100, fadeOutStart |-> 200, opacity |-> 600]) =>
        /\ cycle = 0 => matOpacity = 0
        /\ cycle = 100 => matOpacity = 60000
        /\ cycle = 150 => matOpacity = 60000
        /\ cycle = 1000 => matOpacity = 0

\* C14 as amended: with the same configuration the opacity of a wave is 0 at cycle 0
\* and at cycle 1, and at cycle 0.1 and 0.15 it is 0.6 times the opacity factor of the
\* slot: 1 in slot 0 and in every slot of OrbitalWaves.tsx, 0.92 in slot 1, 0.84 in
\* slot 2, and 0.68, 0.74 or 0.78 at quality 0, 1 or 2 in the slots after.
C14_EnvelopeProbesPerSlot ==
    (waveConfig = [fadeInEnd |-> 100, fadeOutStart |-> 200, opacity |-> 600]) =>
        LET plateau == IF ~profiled \/ slotIndex = 0 THEN 60000
                       ELSE IF slotIndex = 1 THEN 55200
                       ELSE IF slotIndex = 2 THEN 50400
                       ELSE IF slotQuality = 0 THEN 40800
                       ELSE IF slotQuality = 1 THEN 44400
                       ELSE 46800
        IN  /\ cycle = 0 => matOpacity = 0
            /\ cycle = 100 => matOpacity = plateau
            /\ cycle = 150 => matOpacity = plateau
            /\ cycle = 1000 => matOpacity = 0

\* the second slot of the instanced variant in the middle of the plateau
C14_Witness ==
    /\ waveConfig = [fadeInEnd |-> 100, fadeOutStart |-> 200, opacity |-> 600]
    /\ profiled /\ slotIndex = 1 /\ cycle = 150 /\ matOpacity = 55200 /\ op = "envelope"

-----------------------------------------------------------------------------
(* Properties of the placement of the orbits                                *)

\* C15: with a single orbit (total = 1), for every layout preset, the orbit is built
\* with a finite rotation triple, finite radii and a finite phase offset, and neither
\* getOrbitPlacement nor the normalized position divides by total - 1 = 0.
C15_SingleOrbitDefined ==
    (placeCount = 1 /\ placed # NoOrbit) =>
        /\ placed.rotationX = "finite" /\ placed.rotationY = "finite"
        /\ placed.rotationZ = "finite"
        /\ placed.radiusX = "finite" /\ placed.radiusZ = "finite"
        /\ placed.phaseOffset = "finite"
        /\ 0 \notin placed.divisors

\* the single orbit of the meridianWeave layout, built
C15_Witness ==
    /\ op = "orbit" /\ placeCount = 1 /\ placeIndex = 1 /\ layoutPreset = "meridianWeave"
    /\ placed.rotationY = "finite" /\ placed.divisors = {}

-----------------------------------------------------------------------------
(* Properties of the device singleton and of the geometry computation       *)

\* C17: a call of computeOrbitGeometry that has settled has resolved, never rejected:
\* with source cpu whenever initialization gave no device or the GPU path threw, with
\* source gpu only when there was a device and the GPU path did not throw, and in both
\* cases with one buffer of 3 * (segmentsPerOrbit + 1) values for each orbit.
C17_GeometryAlwaysResolves ==
    \A k \in DOMAIN task :
        task[k].pc \in {"resolved", "done"} =>
            LET result == task[k].result
            IN  /\ result.source \in {"gpu", "cpu"}
                /\ (task[k].root = Null \/ task[k].threw) => result.source = "cpu"
                /\ result.source = "gpu" => (task[k].root # Null /\ ~task[k].threw)
                /\ DOMAIN result.positions = 1..gpuConfig.orbitCount
                /\ \A i \in DOMAIN result.positions :
                       result.positions[i] = 3 * (gpuConfig.segmentsPerOrbit + 1)

\* a call that had a device, whose GPU path threw, resolved from the CPU fallback
C17_Witness ==
    \E k \in DOMAIN task :
        /\ task[k].pc = "resolved" /\ task[k].root # Null /\ task[k].threw
        /\ task[k].result.source = "cpu"
        /\ task[k].result.positions = computeOnCPU(gpuConfig)

\* C18: once the effect of a component has been cleaned up, no step changes the
\* positions of its orbit lines, whether the computation resolves from the GPU or from
\* the CPU and however late.
C18_NoRefinementAfterTeardown ==
    [][ \A k \in DOMAIN cancelled :
            cancelled[k] => lineSource'[k] = lineSource[k] ]_vars

\* a GPU result that arrived after the teardown and was dropped
C18_Witness ==
    \E k \in DOMAIN task :
        /\ cancelled[k] /\ task[k].pc = "done" /\ task[k].result.source = "gpu"
        /\ lineSource[k] = "cpu"

\* C19: at most one initialization is in flight at any time; a call of initGPUDevice
\* that arrives while an initialization is in flight waits for it and receives its
\* result; and at most one created device is alive, the cached one.
C19_SingleSharedInitialization ==
    /\ Cardinality(InFlight) <= 1
    /\ \A k \in DOMAIN task :
           hJoined[k] # Null =>
               /\ task[k].awaits = hJoined[k]
               /\ task[k].pc # "await-init" => task[k].root = promises[hJoined[k]].value
    /\ Cardinality(LiveRoots) <= 1
    /\ cachedRoot # Null => LiveRoots = {cachedRoot}

\* two calls, the second arriving during the initialization the first started, both
\* handed the device of that initialization
C19_Witness ==
    \E j, k \in DOMAIN task :
        /\ j # k /\ hJoined[j] = Null /\ hJoined[k] # Null /\ task[j].awaits = hJoined[k]
        /\ task[j].pc = "gpu" /\ task[k].pc = "gpu"
        /\ task[j].root = task[k].root /\ cachedRoot = task[k].root

-----------------------------------------------------------------------------
(* Properties of the rise gate (GovSpec)                                    *)

\* a sample whose target is below the current level, received by a visible document
\* past the grace period and past the drop cooldown
DropDue(f) ==
    /\ visible /\ ~ (now < resumeGraceUntilRef)
    /\ TargetQuality(tier, f) < quality
    /\ ~ (now - lastQualityChangeRef < QUALITY_DROP_COOLDOWN_MS)

\* C20: no performance sample raises the quality level earlier than 6000 ms after the
\* mount, after the most recent fallback, or after the most recent visibility / focus
\* regain, whatever factor it carries; a drop that is due is applied whether or not
\* the gate is still closed.
C20_RiseGate ==
    /\ [](op = "sample" /\ hQualityNote[1] = "rise"
              => hArmAge >= STARTUP_QUALITY_RISE_DELAY_MS)
    /\ [][op' = "sample" =>
              \A f \in Factors :
                  DropDue(f) /\ HandlePerformanceChange(f)
                      => quality' = TargetQuality(tier, f)]_vars

\* a sample raises the level as soon as the gate opens after a fallback
C20_Witness ==
    /\ op = "sample" /\ hQualityNote[1] = "rise"
    /\ hArmAge = STARTUP_QUALITY_RISE_DELAY_MS
    /\ hQualityAge = 0 /\ quality > minQuality

-----------------------------------------------------------------------------
(* Properties of the fallback (FallbackSpec)                                *)

\* C21: a fallback sets the resolution to max(minDpr, 0.7 maxDpr) and the quality to
\* the tier's floor however recently either last changed, records the current time as
\* the last change of both, and re-arms the rise gate: no sample raises the quality
\* within 6000 ms after it.
C21_FallbackForces ==
    /\ op = "fallback" =>
           /\ dpr = Max(tierToMinDpr(tier), (7 * MaxDpr(tier)) \div 10)
           /\ quality = tierToMinQuality(tier)
           /\ lastDprChangeRef = now /\ lastQualityChangeRef = now
    /\ op = "sample" /\ hQualityNote[1] = "rise" /\ hFallbackAge # None
           => hFallbackAge >= STARTUP_QUALITY_RISE_DELAY_MS

\* a fallback on tier high lowers the resolution and the quality while the drop
\* cooldowns of both are still running
C21_Witness ==
    /\ op = "fallback" /\ tier = "high"
    /\ hBefore = <<200, 2>> /\ dpr = 150 /\ quality = 1
    /\ hDprNote[1] = "forced" /\ hDprNote[2] # None /\ hDprNote[2] < DPR_DROP_COOLDOWN_MS
    /\ hQualityNote[1] = "forced" /\ hQualityNote[2] # None
    /\ hQualityNote[2] < QUALITY_DROP_COOLDOWN_MS

-----------------------------------------------------------------------------
(* Properties of the grace periods (GovSpec)                                *)

\* the document is hidden, or the mount is less than 800 ms old, or the last visibility
\* or focus regain less than 1200 ms
Suspended ==
    \/ ~visible
    \/ hResume[1] = "mount" /\ hResume[2] < 800
    \/ hResume[1] = "regain" /\ hResume[2] < 1200

\* C22: a performance sample that arrives while the document is not visible, within
\* 800 ms after the mount or within 1200 ms after a visibility / focus regain leaves the
\* resolution, the quality level and both last-change timestamps unchanged.
C22_SuspendedSampleIgnored ==
    [][op' = "sample" /\ Suspended
           => UNCHANGED <<dpr, quality, lastDprChangeRef, lastQualityChangeRef>>]_vars

\* a sample received by a visible high tier 1100 ms after a regain: outside the grace
\* period factor 1.0 would raise the resolution at once
C22_Witness ==
    /\ op = "sample" /\ visible /\ tier = "high"
    /\ hResume = <<"regain", 1200 - TickMs>>
    /\ dpr = 150 /\ lastDprChangeRef = NEGATIVE_INFINITY

-----------------------------------------------------------------------------
(* Properties of the cache version (Spec)                                   *)

\* C23: transmissionCacheVersion is raised by a wave activation exactly when no wave
\* was active immediately before it, by every quality change and by every visibility
\* regain; an activation while another wave is active leaves it unchanged, and it
\* never decreases.
C23_CacheVersionBumps ==
    /\ [](hBumps >= 0)
    /\ [][(hTrig' = "activated" =>
               hBumps' = (IF \A i \in Slots : ~waves[i].active THEN 1 ELSE 0))
           /\ (quality' # quality => hBumps' > 0)
           /\ (SceneVisibilityRegain => hBumps' > 0)]_vars

\* a third wave is activated next to two active ones and the version stays
C23_Witness ==
    /\ hTrig = "activated" /\ hBumps = 0
    /\ Cardinality({i \in Slots : waves[i].active}) = 3
    /\ hasCachedTransmissionFrame
    /\ capturedTransmissionCacheVersion = transmissionCacheVersion

-----------------------------------------------------------------------------
(* Properties of the capture (CaptureSpec)                                  *)

\* C24: a capture leaves the renderer's render target and tone mapping equal to their
\* values before it and the wave layer visible, also when the offscreen render throws;
\* the captured version and the has-cached flag are updated only if the render
\* completed.
C24_CaptureRestores ==
    [][hRender' # "none" =>
           /\ renderTarget' = renderTarget /\ toneMapping' = toneMapping
           /\ wavesGroupVisible'
           /\ (hRender' = "threw" =>
                   UNCHANGED <<capturedTransmissionCacheVersion, hasCachedTransmissionFrame>>)
           /\ (<<capturedTransmissionCacheVersion, hasCachedTransmissionFrame>>' #
                   <<capturedTransmissionCacheVersion, hasCachedTransmissionFrame>>
                   => hRender' = "completed")]_vars

\* the offscreen render threw under filmic tone mapping and a foreign render target:
\* both are back and the buffer still counts as not captured
C24_Witness ==
    /\ hRender = "threw"
    /\ toneMapping = "ACESFilmicToneMapping" /\ renderTarget = "other"
    /\ wavesGroupVisible /\ ~hasCachedTransmissionFrame
    /\ capturedTransmissionCacheVersion = Behind

-----------------------------------------------------------------------------
(* Properties of the orbit selection (SelSpec, SelFairSpec)                 *)

\* the orbits that are neither the previous one nor busy, for the call that just ended
FreshOrbits == {o \in 0..(orbitCount - 1) : o # hPrevious /\ o \notin busyOrbits}

\* C25: when a wave is activated and at least one orbit is neither the previously
\* assigned orbit nor busy, the assigned orbit is one of those; and with two or more
\* orbits two consecutive activations never receive the same orbit, whichever stage
\* produced it.
C25_OrbitAvoidsPreviousAndBusy ==
    op = "activated" =>
        /\ FreshOrbits # {} => lastOrbitIndexRef \in FreshOrbits
        /\ orbitCount >= 2 => lastOrbitIndexRef # hPrevious

\* every orbit but the previous one is busy, and the modular offset of the last stage
\* still moves away from the previous orbit
C25_Witness ==
    /\ op = "activated" /\ hStage = "offset"
    /\ orbitCount = 3 /\ hPrevious = 1 /\ busyOrbits = {0, 2}
    /\ lastOrbitIndexRef # 1

\* C26: the selection ends after at most max(2 orbitCount, 8) random tries and one scan
\* of the orbits, and yields an index in 0..orbitCount-1, also with a single orbit that
\* is both the previous orbit and busy.
C26_SelectionTerminates ==
    /\ [](/\ attempt <= Max(2 * orbitCount, 8)
          /\ scanIndex <= orbitCount
          /\ (selPc \in {"assign", "done"} => selOrbitIndex \in 0..(orbitCount - 1)))
    /\ (selPc = "random" ~> selPc = "done")

\* the single orbit is the previous one and busy: eight random tries and the scan fail,
\* the last stage assigns it again
C26_Witness ==
    /\ selPc = "done" /\ orbitCount = 1 /\ hPrevious = 0 /\ busyOrbits = {0}
    /\ attempt = 8 /\ scanIndex = 1 /\ hStage = "offset" /\ lastOrbitIndexRef = 0

-----------------------------------------------------------------------------
(* Properties of the wave life cycle (FairSpec)                             *)

\* cycle >= 1 for a wave started at startTime
CycleOver(startTime) == (now - startTime) * WaveSpeed >= 100 * 100

C28_OneActivationPerFrame ==
    /\ [](triggerQueue \in BOOLEAN)
    /\ [][/\ Cardinality(ActiveSlots') <= Cardinality(ActiveSlots) + 1
          /\ ~(pc = "intro" /\ hTrig = "activated" /\ hTrig' = "activated")]_vars

\* C29: the autonomous intro wave is activated exactly once, by the first frame whose
\* elapsed time exceeds INTRO_DURATION, whatever pointer events came before: the
\* intro step of that frame activates a wave, and no other intro step does.
C29_IntroWaveOnce ==
    [][pc = "intro" =>
           (hTrig' = "activated" <=> (elapsedTime > INTRO_DURATION /\ ~hasFiredIntroWave))]_vars


\* orbits.length of OrbitalWaves.tsx: Array.from({ length: 10 })
ORBIT_COUNT == 10

\* the scene of tier high with its ten orbits, no frame run yet
TenInit ==
    /\ tier = "high"
    /\ visible = TRUE
    /\ quality = tierToMidQuality(tierToMaxQuality(tier))
    /\ dpr = ModerateDpr(tier)
    /\ lastQualityChangeRef = NEGATIVE_INFINITY /\ lastDprChangeRef = NEGATIVE_INFINITY
    /\ resumeGraceUntilRef = 0 /\ allowQualityRiseAtRef = 0
    /\ hDprAge = None /\ hQualityAge = None
    /\ hDprNote = NoNote /\ hQualityNote = NoNote /\ hBefore = NoBefore
    /\ hArmAge = None /\ hResume = Settled /\ hOnesAge = None /\ hFallbackAge = None
    /\ orbitCount = ORBIT_COUNT
    /\ waves = [i \in Slots |-> Inactive]
    /\ activeWavesCountRef = 0 /\ lastOrbitIndexRef = -1 /\ lastActiveWaveRef = Null
    /\ hasFiredIntroWave = FALSE /\ triggerQueue = FALSE
    /\ capturedTransmissionCacheVersion = Behind /\ hasCachedTransmissionFrame = FALSE
    /\ contextLost = FALSE /\ elapsedTime = 0 /\ pc = "idle"
    /\ hTrig = "none" /\ hBumps = 0 /\ hZeroed = {} /\ hReqLog = <<>>
    /\ op = "mount"
    /\ TierIdle
    /\ ExtIdle

\* handleWaveComplete(id)
HandleWaveComplete(id) ==
    /\ IF waves[id].active
       THEN /\ waves' = [waves EXCEPT ![id] = Inactive]
            /\ activeWavesCountRef' = Max(0, activeWavesCountRef - 1)
            /\ lastActiveWaveRef' = IF lastActiveWaveRef = id THEN Null ELSE lastActiveWaveRef
       ELSE UNCHANGED <<waves, activeWavesCountRef, lastActiveWaveRef>>
    /\ op' = "complete"
    /\ hTrig' = "none" /\ hBumps' = 0 /\ hZeroed' = {}
    /\ UNCHANGED <<visible, quality, orbitCount, lastOrbitIndexRef, hasFiredIntroWave,
                   triggerQueue, capturedTransmissionCacheVersion,
                   hasCachedTransmissionFrame, contextLost, elapsedTime, pc>>

\* a call of triggerWaveAction by the frame callback
TriggerCall ==
    /\ TriggerWaveAction
    /\ op' = "trigger"
    /\ UNCHANGED <<visible, quality, orbitCount, hasFiredIntroWave, triggerQueue,
                   contextLost, elapsedTime, pc>>

\* the pool of the ten-orbit scene under any order of activations, completions and
\* quality changes: a wave may complete at any time
TenNext ==
    \/ TriggerCall /\ SceneRest /\ UNCHANGED hReqLog
    \/ (\E id \in Slots : HandleWaveComplete(id)) /\ SceneRest /\ UNCHANGED hReqLog
    \/ (\E q \in tierToMinQuality(tier)..tierToMaxQuality(tier) : QualityChange(q))
       /\ SceneRest /\ UNCHANGED hReqLog

TenSpec == TenInit /\ [][TenNext]_vars

\* a pointer handler without the lock
PresetPointerDownUnlocked ==
    /\ pc = "idle"
    /\ IF isLogoVisibleRef
       THEN UNCHANGED triggerQueue /\ op' = "pointer-discarded"
       ELSE triggerQueue' = TRUE /\ op' = "pointer"
    /\ hTrig' = "none" /\ hBumps' = 0 /\ hZeroed' = {}
    /\ UNCHANGED <<visible, quality, orbitCount, waves, activeWavesCountRef, lastOrbitIndexRef,
                   lastActiveWaveRef, hasFiredIntroWave,
                   capturedTransmissionCacheVersion, hasCachedTransmissionFrame,
                   contextLost, elapsedTime, pc, presetVars>>

\* handlePointerDown() of the scene with layout presets
PresetPointerDown ==
    /\ pc = "idle"
    /\ IF ~isManualWaveTriggerUnlocked \/ isLogoVisibleRef
       THEN UNCHANGED triggerQueue /\ op' = "pointer-discarded"
       ELSE triggerQueue' = TRUE /\ op' = "pointer"
    /\ hTrig' = "none" /\ hBumps' = 0 /\ hZeroed' = {}
    /\ UNCHANGED <<visible, quality, orbitCount, waves, activeWavesCountRef, lastOrbitIndexRef,
                   lastActiveWaveRef, hasFiredIntroWave,
                   capturedTransmissionCacheVersion, hasCachedTransmissionFrame,
                   contextLost, elapsedTime, pc, presetVars>>

\* useFrame of the scene with layout presets: the logo opacity is compared with
\* LOGO_VISIBILITY_EPSILON (either outcome), then the pending request is drained
PresetFrameDrain ==
    /\ FrameDrain
    /\ isLogoVisibleRef' \in BOOLEAN
    /\ UNCHANGED isManualWaveTriggerUnlocked

\* useFrame of the scene with layout presets: the autonomous first wave, recorded only
\* when triggerWaveAction returned true; the frame ends
PresetFrameIntro ==
    /\ pc = "intro"
    /\ pc' = "idle"
    /\ op' = "intro"
    /\ IF elapsedTime > INTRO_DURATION /\ ~hasFiredIntroWave
       THEN /\ TriggerWaveAction
            /\ LET didTriggerIntroWave == hTrig' = "activated"
               IN  IF didTriggerIntroWave
                   THEN hasFiredIntroWave' = TRUE /\ isManualWaveTriggerUnlocked' = TRUE
                   ELSE UNCHANGED <<hasFiredIntroWave, isManualWaveTriggerUnlocked>>
       ELSE /\ UNCHANGED <<hasFiredIntroWave, isManualWaveTriggerUnlocked, waves,
                           activeWavesCountRef, lastOrbitIndexRef, lastActiveWaveRef,
                           capturedTransmissionCacheVersion, hasCachedTransmissionFrame>>
            /\ hTrig' = "none" /\ hBumps' = 0 /\ hZeroed' = {}
    /\ UNCHANGED <<visible, quality, orbitCount, triggerQueue, contextLost, elapsedTime,
                   isLogoVisibleRef>>

\* what a step of the scene with layout presets leaves alone
PresetRest ==
    UNCHANGED <<tier, dpr, lastQualityChangeRef, lastDprChangeRef, resumeGraceUntilRef,
                allowQualityRiseAtRef, govHist, hOnesAge, hFallbackAge, tierVars,
                revealVars, envVars, placeVars, gpuVars, glVars, selVars, slotVars,
                hDestroyed, hHold, hReqLog>>

\* the frames of the scene with layout presets among pointer events and quality changes
PresetNext ==
    \/ FrameWaves /\ UNCHANGED presetVars /\ PresetRest
    \/ FrameCapture /\ UNCHANGED presetVars /\ PresetRest
    \/ PresetFrameDrain /\ PresetRest
    \/ PresetFrameIntro /\ PresetRest
    \/ PresetPointerDown /\ PresetRest
    \/ (\E q \in tierToMinQuality(tier)..tierToMaxQuality(tier) : QualityChange(q))
       /\ UNCHANGED presetVars /\ PresetRest

PresetSpec == SceneInit /\ [][PresetNext]_vars

SlotSpecInit ==
    /\ SlotInit /\ CoreIdle /\ RevealIdle /\ EnvIdle /\ PlaceIdle /\ GpuIdle
    /\ GlIdle /\ SelIdle /\ hDestroyed = FALSE /\ hHold = None /\ PresetIdle /\ op = "mount"

\* the pool across changes of the quality level
SlotNext ==
    (\E q \in 0..2 : SlotQualityChange(q))
    /\ UNCHANGED <<coreVars, revealVars, envVars, placeVars, gpuVars, glVars, selVars,
                   hDestroyed, hHold, presetVars>>

SlotSpec == SlotSpecInit /\ [][SlotNext]_vars

\* C30: for every quality level and every base sample count the sample counts of the
\* slots do not increase with the slot index: slot 0 has the base count, no slot has
\* more samples than a slot before it, and every slot has at least 1 sample.
C30_SlotSamplesNonIncreasing ==
    perfMaxWaves > 0 =>
        /\ waveSlotSamples[0] = transmissionSamples(sampleQuality)
        /\ \A i, j \in DOMAIN waveSlotSamples : i < j => waveSlotSamples[j] <= waveSlotSamples[i]
        /\ \A i \in DOMAIN waveSlotSamples : waveSlotSamples[i] >= 1


\* a step outside the frame callback: an event handler or an effect
OutsideFrame == pc = "idle" /\ pc' = "idle"

C32_GlowFollowsNewestWave ==
    /\ [](lastActiveWaveRef # Null =>
              /\ waves[lastActiveWaveRef].active
              /\ \A j \in ActiveSlots :
                     waves[j].startTime <= waves[lastActiveWaveRef].startTime)
    /\ [][lastActiveWaveRef # Null /\ pc \notin {"drain", "intro"} =>
              lastActiveWaveRef' = (IF waves'[lastActiveWaveRef].active
                                    THEN lastActiveWaveRef ELSE Null)]_vars

\* an older wave has completed and the reference stays on the newest one
C32_Witness ==
    /\ op = "tick-complete"
    /\ lastActiveWaveRef # Null
    /\ hZeroed # {}
    /\ \E j \in ActiveSlots : waves[j].startTime < waves[lastActiveWaveRef].startTime


\* an initialization has failed
InitFailed == \E p \in 1..Len(promises) : promises[p].settled /\ promises[p].value = Null

\* C33: after an initialization has failed, no device is cached and every later call
\* of initGPUDevice returns null without starting another initialization, also after
\* destroyGPUDevice; after one has succeeded, every later call returns the cached
\* handle, which stays the same until destroyGPUDevice removes it.
C33_InitOutcomeIsRemembered ==
    /\ [](InitFailed => knownUnavailable /\ cachedRoot = Null)
    /\ [][/\ \A k \in DOMAIN task :
                 task[k].pc = "idle" /\ task'[k].pc = "await-init" =>
                     /\ InitFailed =>
                            /\ promises' = promises
                            /\ task'[k].awaits = Null /\ task'[k].root = Null
                     /\ cachedRoot # Null =>
                            /\ promises' = promises
                            /\ task'[k].awaits = Null /\ task'[k].root = cachedRoot
          /\ cachedRoot # Null =>
                 \/ cachedRoot' = cachedRoot
                 \/ cachedRoot' = Null /\ cachedRoot \in destroyedRoots']_vars

\* a call that arrived after the only initialization had failed and was answered null
C33_Witness ==
    /\ InitFailed /\ Len(promises) = 1
    /\ \E k \in DOMAIN task :
           task[k].pc = "await-init" /\ task[k].awaits = Null /\ task[k].root = Null

\* C34: after destroyGPUDevice has returned no device handle is cached until a later
\* call of initGPUDevice starts a new initialization, also when destroyGPUDevice was
\* called while an initialization was in flight.
C34_NoHandleAfterDestroy == hDestroyed => cachedRoot = Null


\* C36: activeWavesCountRef equals the number of slots whose active flag is true, after
\* every activation, every completion and every run of the effect on the cap, so a
\* frame takes the idle branch of the capture exactly when no slot is active.
C36_CounterMatchesSlots ==
    /\ [](activeWavesCountRef = Cardinality(ActiveSlots))
    /\ [][pc = "capture" => (op' = "capture-idle" <=> ActiveSlots = {})]_vars

\* two waves completed in one frame and two remain
C36_Witness ==
    /\ op = "tick-complete" /\ Cardinality(hZeroed) = 2
    /\ activeWavesCountRef = 2 /\ Cardinality(ActiveSlots) = 2

-----------------------------------------------------------------------------
(* Properties of the resolution grid (GovSpec)                              *)

\* C35 as stated: the resolution multiplier is always a multiple of 0.25
C35_DprOnGrid == dpr % 25 = 0

\* C35: the resolution multiplier is a multiple of the 0.25 step whenever it was last
\* set by a sample or by the visibility restore, for each tier; the fallback path sets
\* it to max(minDpr, 0.7 * maxDpr), which is off the grid on tier medium only (1.05).
C35_DprOnGridButFallback ==
    /\ [](dpr % 25 # 0 => tier = "medium" /\ dpr = FallbackDpr(tier))
    /\ [](op = "fallback" /\ tier # "medium" => dpr % 25 = 0)
    /\ [][op' # "fallback" /\ dpr' # dpr => dpr' % 25 = 0]_vars

\* the fallback on tier medium, taking the resolution from a value a sample had set
\* on the grid to 1.05
C35_Witness ==
    /\ tier = "medium" /\ op = "fallback"
    /\ hBefore[1] = 125 /\ dpr = 105


-----------------------------------------------------------------------------
(* Properties of the quality range (GovSpec)                                *)

QualityInTierRange ==
    /\ tierToMinQuality(tier) <= quality
    /\ quality <= tierToMaxQuality(tier)
    /\ (tier = "medium" => quality = 1)
    /\ (tier = "low" => quality = 0)
    /\ (tier = "high" => quality \in {1, 2})

\* C38: the quality level always lies in [minQuality(tier), maxQuality(tier)]: it is 1
\* on tier medium, 0 on tier low and 1 or 2 on tier high in every reachable state, and
\* no sample, fallback or visibility regain changes it on the medium and low tiers.
C38_QualityWithinTierRange ==
    /\ [](QualityInTierRange)
    /\ [][(tier # "high") => (quality' = quality)]_vars

\* a sample below the mid threshold took a high tier from quality 2 to its floor, 1
C38_Witness ==
    /\ tier = "high" /\ op = "sample" /\ hQualityNote[1] = "drop" /\ quality = 1
    /\ dpr = tierToMinDpr(tier)


\* C39 as claimed: once the same factor is sampled for ever by a visible document,
\* with no fallback and no visibility event, the resolution ends up equal to the
\* quantized clamped target of that factor and the quality equal to its threshold
\* target, and both stay there
C39_SettlesOnTarget ==
    <>[](hHold = None \/ (/\ dpr = ClampedDpr(tier, hHold)
                          /\ quality = TargetQuality(tier, hHold)))

WithinMinDelta ==
    /\ Abs(dpr - ClampedDpr(tier, hHold)) < DPR_MIN_DELTA_TO_APPLY
    /\ (dpr # ClampedDpr(tier, hHold) => (tier = "medium" /\ dpr = FallbackDpr(tier)))

\* C39, amended: once the same factor is sampled for ever by a visible document, with
\* no fallback and no visibility event, the resolution ends up within the minimum
\* delta of the quantized clamped target of that factor (equal to it, or at the
\* fallback resolution of tier medium), the quality ends up equal to its threshold
\* target, and both stay there
C39_SettlesWithinMinDelta ==
    <>[](hHold = None \/ (WithinMinDelta /\ quality = TargetQuality(tier, hHold)))

C39_Witness ==
    /\ hHold = 100 /\ tier = "high" /\ op = "sample"
    /\ hQualityNote[1] = "rise"
    /\ dpr = ClampedDpr(tier, hHold) /\ quality = TargetQuality(tier, hHold)
    /\ hArmAge = STARTUP_QUALITY_RISE_DELAY_MS



NoWaveBeforeIntro ==
    ~hasFiredIntroWave =>
        (/\ triggerQueue = FALSE
         /\ ~isManualWaveTriggerUnlocked
         /\ activeWavesCountRef = 0
         /\ (\A i \in Slots : ~waves[i].active))

\* C40: in the scene with layout presets, a pointer-down received before the intro wave
\* has been activated is discarded: until then no wave is active and no request is
\* pending, the step that activates a wave while none has been activated yet is the
\* intro step, and no request is pending when the intro wave is activated
C40_PointerDiscardedBeforeIntro ==
    /\ [](NoWaveBeforeIntro)
    /\ [][(~hasFiredIntroWave) =>
            (/\ triggerQueue' = FALSE
             /\ ((hTrig' = "activated") => (op' = "intro" /\ hasFiredIntroWave')))]_vars

C40_Witness ==
    /\ op = "pointer-discarded" /\ ~hasFiredIntroWave /\ ~isLogoVisibleRef
    /\ elapsedTime > 0 /\ triggerQueue = FALSE


====
